---- MODULE Spec2Model ----
(***************************************************************************)
(* Model of the change-stream (LOG_BASED) sync engine of tap_mongodb:      *)
(* tap_mongodb/sync_strategies/change_streams.py, with the parts of        *)
(* tap_mongodb/sync_strategies/common.py it calls.                         *)
(*                                                                         *)
(* The change feed is the environment.  A feed position is the number of   *)
(* events the cursor has returned so far; cursor.resume_token is that      *)
(* position, so that resuming after token t re-delivers event t+1 onwards. *)
(* One action is one pass through the body of the while loop of            *)
(* sync_collection, flush and checkpoint included.  The messages handed to *)
(* singer.write_message are appended to out, in the order of the calls.    *)
(*                                                                         *)
(* change_streams.write_schema calls common.row_to_schema(schema, row);    *)
(* common.py defines that merge under the name update_schema_from_row      *)
(* (same parameters, same result), and that is the function modelled.      *)
(***************************************************************************)
EXTENDS Integers, Sequences, FiniteSets, TLC

VARIABLES pc, input, missing, alive, pos, change, token, version,
          rows_saved, update_buffer, schema, out, finds,
          state, streams_to_sync, stream, raised

vars == <<pc, input, missing, alive, pos, change, token, version,
          rows_saved, update_buffer, schema, out, finds,
          state, streams_to_sync, stream, raised>>

\* the locals of change_streams.sync_collection
syncvars == <<missing, alive, pos, change, token, version,
              rows_saved, update_buffer, schema, finds>>

\* the state dictionary and the locals of do_sync and sync_stream
runvars == <<state, streams_to_sync, stream, raised>>

(***************************************************************************)
(* Program constants.                                                      *)
(***************************************************************************)
MAX_UPDATE_BUFFER_LENGTH == 500

UPDATE_BOOKMARK_PERIOD == 1000

(***************************************************************************)
(* Bounds of the model.                                                    *)
(***************************************************************************)
\* number of freely chosen events after the scripted prefix of the feed
MaxTail == 3

\* documents the freely chosen events are about: 1..MaxId
MaxId == 2

\* identifiers of the documents of the scripted prefix start here
RampBase == 100

\* number of identifiers in the buffers handed to flush_buffer on its own
MaxFlushIds == 4

\* number of streams in a catalog handed to get_streams_to_sync on its own
MaxStreams == 3

\* number of streams in the catalog of a whole run
MaxRunStreams == 2

\* number of messages the sync of one collection writes in a whole run
MaxBody == 3

\* length of the lists in the documents merged into a schema
MaxItems == 2

TailIds == 1..MaxId

None == [op |-> "none", id |-> 0, ts |-> 0]

\* Python's None, where the model holds strings
NoValue == "None"

Last(s) == s[Len(s)]

(***************************************************************************)
(* Documents.  A value is [k, x]: k its type, x its content.  The document *)
(* of an odd identifier among 1..MaxId holds a datetime, every other       *)
(* document holds plain scalars only.                                      *)
(***************************************************************************)
ValueOf(id) ==
    IF id \in TailIds /\ id % 2 = 1
    THEN [k |-> "datetime", x |-> id]
    ELSE [k |-> "int", x |-> id]

DocOf(id) == [_id |-> [k |-> "int", x |-> id], v |-> ValueOf(id)]

(***************************************************************************)
(* common.py: the schema merge.  A schema is [properties |-> p], p a       *)
(* function from field names to anyOf lists; an anyOf entry is             *)
(* [type, format, multipleOf], "" and FALSE standing for an absent key, so *)
(* that CatchAll is the entry {}.                                          *)
(***************************************************************************)
CatchAll == [type |-> "", format |-> "", multipleOf |-> FALSE]

DateTimeEntry == [type |-> "string", format |-> "date-time", multipleOf |-> FALSE]

NumberEntry(marker) == [type |-> "number", format |-> "", multipleOf |-> marker]

EmptySchema == [properties |-> [f \in {} |-> <<>>]]

InsertAt(s, i, e) == SubSeq(s, 1, i) \o <<e>> \o SubSeq(s, i + 1, Len(s))

HasDate(anyOf) == \E i \in 1..Len(anyOf) : anyOf[i].format = "date-time"

\* faulty variant: the date-time entry is appended, after the catch-all
_add_to_any_of_for_datetime_types_appends(anyOf) ==
    IF HasDate(anyOf)
    THEN [anyOf |-> anyOf, changed |-> FALSE]
    ELSE [anyOf |-> Append(anyOf, DateTimeEntry), changed |-> TRUE]

\* faulty variant: a date-time entry is inserted without looking for one
_add_to_any_of_for_datetime_types_again(anyOf) ==
    [anyOf |-> InsertAt(anyOf, 0, DateTimeEntry), changed |-> TRUE]

\* lines 242-261
_add_to_any_of_for_datetime_types(anyOf) ==
    IF HasDate(anyOf)
    THEN [anyOf |-> anyOf, changed |-> FALSE]
    ELSE [anyOf |-> InsertAt(anyOf, 0, DateTimeEntry), changed |-> TRUE]

\* the first number entry whose marker is `marker`, 0 if there is none
FirstNumber(anyOf, marker) ==
    LET S == {i \in 1..Len(anyOf) :
                 anyOf[i].type = "number" /\ anyOf[i].multipleOf = marker}
    IN IF S = {} THEN 0 ELSE CHOOSE i \in S : \A j \in S : i <= j

\* faulty variant: decimal and float each get a number entry of their own
AddNumber_own_entry(anyOf, marker) ==
    IF FirstNumber(anyOf, marker) # 0
    THEN [anyOf |-> anyOf, changed |-> FALSE]
    ELSE [anyOf |-> InsertAt(anyOf, IF HasDate(anyOf) THEN 1 ELSE 0,
                             NumberEntry(marker)),
          changed |-> TRUE]

\* decimal (marker = TRUE) and float (marker = FALSE) mirror each other
AddNumber(anyOf, marker) ==
    LET other == FirstNumber(anyOf, ~marker)
    IN IF other # 0
       THEN [anyOf |-> [anyOf EXCEPT ![other].multipleOf = marker], changed |-> TRUE]
       ELSE IF FirstNumber(anyOf, marker) # 0
       THEN [anyOf |-> anyOf, changed |-> FALSE]
       ELSE [anyOf |-> InsertAt(anyOf, IF HasDate(anyOf) THEN 1 ELSE 0,
                                NumberEntry(marker)),
             changed |-> TRUE]

\* faulty variant: a new number entry goes to index 0 whether or not a
\* date-time entry is present
_add_to_any_of_for_decimal_types_at_front(anyOf) ==
    IF FirstNumber(anyOf, FALSE) # 0 \/ FirstNumber(anyOf, TRUE) # 0
    THEN AddNumber(anyOf, TRUE)
    ELSE [anyOf |-> InsertAt(anyOf, 0, NumberEntry(TRUE)), changed |-> TRUE]

_add_to_any_of_for_decimal_types(anyOf) == AddNumber(anyOf, TRUE)

\* faulty variant: a float rebuilds the list, with the number entry alone
_add_to_any_of_for_float_types_rebuilds(anyOf) ==
    [anyOf |-> <<NumberEntry(FALSE), CatchAll>>,
     changed |-> anyOf # <<NumberEntry(FALSE), CatchAll>>]

_add_to_any_of_for_float_types(anyOf) == AddNumber(anyOf, FALSE)

\* an object entry holds the properties of the nested documents, an array
\* entry the anyOf list of its items
ObjectEntry(props) ==
    [type |-> "object", format |-> "", multipleOf |-> FALSE, properties |-> props]

ArrayEntry(items) ==
    [type |-> "array", format |-> "", multipleOf |-> FALSE, items |-> items]

NoProperties == [f \in {} |-> <<>>]

\* the last entry of the given type, 0 if there is none: the loops of lines
\* 342-345 and 372-375 do not break
LastOfType(anyOf, type) ==
    LET S == {i \in 1..Len(anyOf) : anyOf[i].type = type}
    IN IF S = {} THEN 0 ELSE CHOOSE i \in S : \A j \in S : j <= i

\* faulty variant: every value passes the isinstance test
GrowsSchema_any_value(value) == value.k # ""

\* the isinstance test of update_schema_from_row
GrowsSchema(value) == value.k \in {"datetime", "decimal", "float", "dict", "list"}

RECURSIVE add_to_any_of(_, _)
RECURSIVE AddEntries(_, _, _)
RECURSIVE update_schema_from_row(_, _)

\* the loop of lines 380-381 over the entries i.. of a list
AddEntries(anyOf, entries, i) ==
    IF i > Len(entries) THEN [anyOf |-> anyOf, changed |-> FALSE]
    ELSE CHOOSE r \in
           {CHOOSE q \in {[anyOf |-> rest.anyOf,
                           changed |-> first.changed \/ rest.changed] :
                             rest \in {AddEntries(first.anyOf, entries, i + 1)}} : TRUE :
              first \in {add_to_any_of(anyOf, entries[i])}} : TRUE

\* faulty variant: a new array entry is inserted whether or not an item changed it
_add_to_any_of_for_list_type_always_inserts(anyOf, value) ==
    CHOOSE r \in
      {CHOOSE q \in
         {IF idx # 0
          THEN [anyOf |-> [anyOf EXCEPT ![idx].items = m.anyOf], changed |-> m.changed]
          ELSE [anyOf |-> InsertAt(anyOf, Len(anyOf) - 1, ArrayEntry(m.anyOf)),
                changed |-> m.changed] :
            m \in {AddEntries(IF idx # 0 THEN anyOf[idx].items ELSE <<CatchAll>>,
                              value.x, 1)}} : TRUE :
         idx \in {LastOfType(anyOf, "array")}} : TRUE

_add_to_any_of_for_list_type(anyOf, value) ==
    CHOOSE r \in
      {CHOOSE q \in
         {IF idx # 0
          THEN [anyOf |-> [anyOf EXCEPT ![idx].items = m.anyOf], changed |-> m.changed]
          ELSE IF m.changed
          THEN [anyOf |-> InsertAt(anyOf, Len(anyOf) - 1, ArrayEntry(m.anyOf)),
                changed |-> TRUE]
          ELSE [anyOf |-> anyOf, changed |-> FALSE] :
            m \in {AddEntries(IF idx # 0 THEN anyOf[idx].items ELSE <<CatchAll>>,
                              value.x, 1)}} : TRUE :
         idx \in {LastOfType(anyOf, "array")}} : TRUE

\* faulty variant: the object entry that exists is not looked for
_add_to_any_of_for_dict_type_new_entry(anyOf, value) ==
    CHOOSE r \in
      {IF m.changed
       THEN [anyOf |-> InsertAt(anyOf, Len(anyOf) - 1, m.schema), changed |-> TRUE]
       ELSE [anyOf |-> anyOf, changed |-> FALSE] :
         m \in {update_schema_from_row(ObjectEntry(NoProperties), value.x)}} : TRUE

_add_to_any_of_for_dict_type(anyOf, value) ==
    CHOOSE r \in
      {CHOOSE q \in
         {IF idx # 0
          THEN [anyOf |-> [anyOf EXCEPT ![idx] = m.schema], changed |-> m.changed]
          ELSE IF m.changed
          THEN [anyOf |-> InsertAt(anyOf, Len(anyOf) - 1, m.schema), changed |-> TRUE]
          ELSE [anyOf |-> anyOf, changed |-> FALSE] :
            m \in {update_schema_from_row(IF idx # 0 THEN anyOf[idx]
                                          ELSE ObjectEntry(NoProperties),
                                          value.x)}} : TRUE :
         idx \in {LastOfType(anyOf, "object")}} : TRUE

add_to_any_of(anyOf, value) ==
    CASE value.k = "datetime" -> _add_to_any_of_for_datetime_types(anyOf)
      [] value.k = "decimal" -> _add_to_any_of_for_decimal_types(anyOf)
      [] value.k = "float" -> _add_to_any_of_for_float_types(anyOf)
      [] value.k = "dict" -> _add_to_any_of_for_dict_type(anyOf, value)
      [] value.k = "list" -> _add_to_any_of_for_list_type(anyOf, value)
      [] OTHER -> [anyOf |-> anyOf, changed |-> FALSE]

update_schema_from_row(sch, row) ==
    LET props == sch.properties
        grow == {f \in DOMAIN row : GrowsSchema(row[f])}
        old(f) == IF f \in DOMAIN props THEN props[f] ELSE <<CatchAll>>
    IN [schema |-> [sch EXCEPT !.properties =
                       [f \in DOMAIN props \cup grow |->
                           IF f \in grow
                           THEN add_to_any_of(old(f), row[f]).anyOf
                           ELSE props[f]]],
        changed |-> \E f \in grow : add_to_any_of(old(f), row[f]).changed]

(***************************************************************************)
(* common.py: the value transformer, for the values of the model.  A       *)
(* datetime whose content is 0 stands for one that cannot be converted to  *)
(* UTC: localize or astimezone raises on it.  The conversion table is a    *)
(* dict literal; bson_datetime is the datetime module that bson imports,   *)
(* so the table names the key datetime.datetime twice and the later        *)
(* handler replaces the earlier one.                                       *)
(***************************************************************************)
Normalisable(value) == value.x # 0

\* lines 184-200, the handlers of the types of the model in source order
ConversionItems ==
    << <<"datetime", "safe_transform_datetime">>,
       <<"int64", "int">>,
       <<"datetime", "strftime">>,
       <<"decimal", "to_decimal">> >>

\* the handler a dict literal keeps for a key: the last one given
conversion(k) ==
    LET S == {i \in 1..Len(ConversionItems) : ConversionItems[i][1] = k}
    IN IF S = {} THEN NoValue
       ELSE ConversionItems[CHOOSE i \in S : \A j \in S : j <= i][2]

RECURSIVE transform_value(_)
transform_value(value) ==
    CASE value.k = "list" ->
           [k |-> "list", x |-> [i \in 1..Len(value.x) |-> transform_value(value.x[i])]]
      [] value.k = "dict" ->
           [k |-> "dict", x |-> [f \in DOMAIN value.x |-> transform_value(value.x[f])]]
      [] value.k = "datetime" -> [k |-> "str", x |-> value.x]
      [] OTHER -> value

\* the exception transform_value raises on a value, NoValue if it returns:
\* lines 202-205 convert a datetime outside any try, lines 207-208 call the
\* handler of the table
RECURSIVE transform_value_raises(_)
transform_value_raises(value) ==
    CASE value.k = "list" ->
           LET S == {i \in 1..Len(value.x) : transform_value_raises(value.x[i]) # NoValue}
           IN IF S = {} THEN NoValue
              ELSE transform_value_raises(value.x[CHOOSE i \in S : \A j \in S : i <= j])
      [] value.k = "dict" ->
           LET S == {f \in DOMAIN value.x : transform_value_raises(value.x[f]) # NoValue}
           IN IF S = {} THEN NoValue
              ELSE transform_value_raises(value.x[CHOOSE f \in S : TRUE])
      [] value.k = "datetime" ->
           IF ~Normalisable(value) THEN "OverflowError"
           ELSE IF conversion("datetime") = "safe_transform_datetime"
           THEN "MongoInvalidDateTimeException"
           ELSE NoValue
      [] OTHER -> NoValue

\* lines 228-233: the exception row_to_singer_record raises on a row
row_to_singer_record_raises(row) ==
    LET S == {f \in DOMAIN row : transform_value_raises(row[f]) # NoValue}
        ex == IF S = {} THEN NoValue
              ELSE transform_value_raises(row[CHOOSE f \in S : TRUE])
    IN IF ex = "MongoInvalidDateTimeException" THEN "SyncException" ELSE ex

(***************************************************************************)
(* The four kinds of message written to the output.                        *)
(***************************************************************************)
ActivateVersionMessage(v) == [type |-> "ACTIVATE_VERSION", version |-> v]

SchemaMessage(sch) == [type |-> "SCHEMA", schema |-> sch]

RecordMessage(rec, v) == [type |-> "RECORD", record |-> rec, version |-> v]

\* the value of a state message is a copy of the state: the bookmark token
StateMessage(tok) == [type |-> "STATE", token |-> tok]

row_to_singer_record(row, v) ==
    RecordMessage([f \in {g \in DOMAIN row : row[g].k \notin {"minkey", "maxkey"}} |->
                      transform_value(row[f])], v)

(***************************************************************************)
(* change_streams.py                                                       *)
(***************************************************************************)
\* faulty variant: a new version is generated whatever the bookmark holds
get_stream_version_fresh(bookmarked, now) == now

\* common.py lines 61-76; 0 stands for a bookmark without version
get_stream_version(bookmarked, now) == IF bookmarked = 0 THEN now ELSE bookmarked

\* faulty variant: the schema message is written whether or not the merge
\* reported a change
write_schema_always(sch, row) ==
    LET m == update_schema_from_row(sch, row)
    IN [schema |-> m.schema, msgs |-> <<SchemaMessage(m.schema)>>]

\* lines 30-38
write_schema(sch, row) ==
    LET m == update_schema_from_row(sch, row)
    IN [schema |-> m.schema,
        msgs |-> IF m.changed THEN <<SchemaMessage(m.schema)>> ELSE <<>>]

\* faulty variant: the bookmark keeps the token of the previous run
update_bookmarks_stale(bookmark, tok) == bookmark

update_bookmarks(bookmark, tok) == tok

\* every identifier of the model, in ascending order
IdsInOrder ==
    [i \in 1..(RampBase + MAX_UPDATE_BUFFER_LENGTH + UPDATE_BOOKMARK_PERIOD) |-> i]

\* the elements of a set of identifiers in ascending order; a value bound
\* through a singleton set is evaluated once
SortedSeq(S) ==
    CHOOSE r \in {SelectSeq(IdsInOrder, LAMBDA x : x \in T) : T \in {S}} : TRUE

\* collection.find({'_id': {'$in': buffer}}): the documents that exist, in
\* the order of the _id index
get_buffer_rows_from_db(buffer, miss) ==
    CHOOSE r \in {[i \in 1..Len(ids) |-> DocOf(ids[i])] :
                     ids \in {SortedSeq(buffer \ miss)}} : TRUE

\* the loop of flush_buffer over rows[lo..hi], halved so that the evaluation
\* stays shallow
RECURSIVE FlushRows(_, _, _, _, _)
FlushRows(rows, lo, hi, v, sch) ==
    IF lo > hi THEN [msgs |-> <<>>, schema |-> sch]
    ELSE IF lo = hi
    THEN CHOOSE r \in {[msgs |-> w.msgs \o <<row_to_singer_record(rows[lo], v)>>,
                        schema |-> w.schema] :
                          w \in {write_schema(sch, rows[lo])}} : TRUE
    ELSE CHOOSE r \in
           {CHOOSE q \in
              {CHOOSE p \in {[msgs |-> left.msgs \o right.msgs,
                              schema |-> right.schema] :
                                right \in {FlushRows(rows, mid + 1, hi, v,
                                                     left.schema)}} : TRUE :
                 left \in {FlushRows(rows, lo, mid, v, sch)}} : TRUE :
              mid \in {(lo + hi) \div 2}} : TRUE

\* faulty variant: the size of the buffer is returned, not the number of rows found
flush_buffer_counts_buffer(buffer, miss, v, sch) ==
    CHOOSE r \in
      {CHOOSE q \in {[rows_saved |-> Cardinality(buffer), msgs |-> f.msgs,
                      schema |-> f.schema, buffer |-> {}] :
                        f \in {FlushRows(rows, 1, Len(rows), v, sch)}} : TRUE :
         rows \in {get_buffer_rows_from_db(buffer, miss)}} : TRUE

\* faulty variant: the buffer is not cleared
flush_buffer_keeps_buffer(buffer, miss, v, sch) ==
    CHOOSE r \in
      {CHOOSE q \in {[rows_saved |-> Len(rows), msgs |-> f.msgs,
                      schema |-> f.schema, buffer |-> buffer] :
                        f \in {FlushRows(rows, 1, Len(rows), v, sch)}} : TRUE :
         rows \in {get_buffer_rows_from_db(buffer, miss)}} : TRUE

\* lines 187-222
flush_buffer(buffer, miss, v, sch) ==
    CHOOSE r \in
      {CHOOSE q \in {[rows_saved |-> Len(rows), msgs |-> f.msgs,
                      schema |-> f.schema, buffer |-> {}] :
                        f \in {FlushRows(rows, 1, Len(rows), v, sch)}} : TRUE :
         rows \in {get_buffer_rows_from_db(buffer, miss)}} : TRUE

\* the tombstone document of a delete event
DeletedDoc(ev) ==
    [_sdc_deleted_at |-> [k |-> "str", x |-> ev.ts],
     _id |-> [k |-> "int", x |-> ev.id]]

\* faulty variant: the tombstone of a delete is not counted
Dispatch_delete_uncounted(ev, buffer, rows, v, sch) ==
    CASE ev.op = "insert" ->
           LET w == write_schema(sch, DocOf(ev.id))
           IN [update_buffer |-> buffer, rows_saved |-> rows + 1,
               schema |-> w.schema,
               msgs |-> w.msgs \o <<row_to_singer_record(DocOf(ev.id), v)>>]
      [] ev.op = "update" ->
           [update_buffer |-> buffer \cup {ev.id}, rows_saved |-> rows,
            schema |-> sch, msgs |-> <<>>]
      [] ev.op = "delete" ->
           LET w == write_schema(sch, DeletedDoc(ev))
           IN [update_buffer |-> buffer \ {ev.id}, rows_saved |-> rows,
               schema |-> w.schema,
               msgs |-> w.msgs \o <<row_to_singer_record(DeletedDoc(ev), v)>>]

\* faulty variant: an update is written at once, from the document as it is now
Dispatch_update_inline(ev, buffer, rows, v, sch) ==
    CASE ev.op \in {"insert", "update"} ->
           LET w == write_schema(sch, DocOf(ev.id))
           IN [update_buffer |-> buffer, rows_saved |-> rows + 1,
               schema |-> w.schema,
               msgs |-> w.msgs \o <<row_to_singer_record(DocOf(ev.id), v)>>]
      [] ev.op = "delete" ->
           LET w == write_schema(sch, DeletedDoc(ev))
           IN [update_buffer |-> buffer \ {ev.id}, rows_saved |-> rows + 1,
               schema |-> w.schema,
               msgs |-> w.msgs \o <<row_to_singer_record(DeletedDoc(ev), v)>>]

\* faulty variant: a delete leaves the identifier in the buffer
Dispatch_delete_keeps_pending(ev, buffer, rows, v, sch) ==
    CASE ev.op = "insert" ->
           LET w == write_schema(sch, DocOf(ev.id))
           IN [update_buffer |-> buffer, rows_saved |-> rows + 1,
               schema |-> w.schema,
               msgs |-> w.msgs \o <<row_to_singer_record(DocOf(ev.id), v)>>]
      [] ev.op = "update" ->
           [update_buffer |-> buffer \cup {ev.id}, rows_saved |-> rows,
            schema |-> sch, msgs |-> <<>>]
      [] ev.op = "delete" ->
           LET w == write_schema(sch, DeletedDoc(ev))
           IN [update_buffer |-> buffer, rows_saved |-> rows + 1,
               schema |-> w.schema,
               msgs |-> w.msgs \o <<row_to_singer_record(DeletedDoc(ev), v)>>]

\* lines 130-163: the dispatch on change['operationType']
Dispatch(ev, buffer, rows, v, sch) ==
    CASE ev.op = "insert" ->
           LET w == write_schema(sch, DocOf(ev.id))
           IN [update_buffer |-> buffer, rows_saved |-> rows + 1,
               schema |-> w.schema,
               msgs |-> w.msgs \o <<row_to_singer_record(DocOf(ev.id), v)>>]
      [] ev.op = "update" ->
           [update_buffer |-> buffer \cup {ev.id}, rows_saved |-> rows,
            schema |-> sch, msgs |-> <<>>]
      [] ev.op = "delete" ->
           LET w == write_schema(sch, DeletedDoc(ev))
           IN [update_buffer |-> buffer \ {ev.id}, rows_saved |-> rows + 1,
               schema |-> w.schema,
               msgs |-> w.msgs \o <<row_to_singer_record(DeletedDoc(ev), v)>>]

\* faulty variant: the buffer is flushed only once it holds more than the cap
FlushNeeded_strict(buffer, rows) ==
    Cardinality(buffer) > MAX_UPDATE_BUFFER_LENGTH
        \/ rows % UPDATE_BOOKMARK_PERIOD = 0

\* line 171
FlushNeeded(buffer, rows) ==
    Cardinality(buffer) >= MAX_UPDATE_BUFFER_LENGTH
        \/ rows % UPDATE_BOOKMARK_PERIOD = 0

\* line 176
StateDue(rows) == rows % UPDATE_BOOKMARK_PERIOD = 0

\* faulty variant: the checkpoint is written before the flush
EndOfIteration_state_first(d, tok, miss, v) ==
    IF FlushNeeded(d.update_buffer, d.rows_saved)
    THEN CHOOSE r \in
           {[update_buffer |-> f.buffer,
             rows_saved |-> d.rows_saved + f.rows_saved,
             schema |-> f.schema, finds |-> 1,
             msgs |-> d.msgs \o
                      (IF StateDue(d.rows_saved + f.rows_saved)
                       THEN <<StateMessage(tok)>> ELSE <<>>) \o f.msgs] :
              f \in {flush_buffer(d.update_buffer, miss, v, d.schema)}} : TRUE
    ELSE [update_buffer |-> d.update_buffer, rows_saved |-> d.rows_saved,
          schema |-> d.schema, finds |-> 0, msgs |-> d.msgs]

\* lines 165-178: bookmark, flush and checkpoint at the end of an iteration
EndOfIteration(d, tok, miss, v) ==
    IF FlushNeeded(d.update_buffer, d.rows_saved)
    THEN CHOOSE r \in
           {[update_buffer |-> f.buffer,
             rows_saved |-> d.rows_saved + f.rows_saved,
             schema |-> f.schema, finds |-> 1,
             msgs |-> d.msgs \o f.msgs \o
                      (IF StateDue(d.rows_saved + f.rows_saved)
                       THEN <<StateMessage(tok)>> ELSE <<>>)] :
              f \in {flush_buffer(d.update_buffer, miss, v, d.schema)}} : TRUE
    ELSE [update_buffer |-> d.update_buffer, rows_saved |-> d.rows_saved,
          schema |-> d.schema, finds |-> 0, msgs |-> d.msgs]

(***************************************************************************)
(* The state dictionary, as the singer helpers called from __init__.py read *)
(* and write it.  A bookmark is a function from the names of its fields to *)
(* their values.                                                           *)
(***************************************************************************)
EmptyBookmark == [f \in {} |-> NoValue]

EmptyState == [bookmarks |-> [i \in {} |-> EmptyBookmark],
               currently_syncing |-> NoValue]

\* singer.get_bookmark(state, tap_stream_id, key)
get_bookmark(st, id, key) ==
    IF id \in DOMAIN st.bookmarks /\ key \in DOMAIN st.bookmarks[id]
    THEN st.bookmarks[id][key]
    ELSE NoValue

\* singer.write_bookmark(state, tap_stream_id, key, val)
write_bookmark(st, id, key, val) ==
    LET old == IF id \in DOMAIN st.bookmarks THEN st.bookmarks[id]
               ELSE EmptyBookmark
    IN [st EXCEPT !.bookmarks =
           [i \in DOMAIN st.bookmarks \cup {id} |->
               IF i = id
               THEN [f \in DOMAIN old \cup {key} |->
                        IF f = key THEN val ELSE old[f]]
               ELSE st.bookmarks[i]]]

\* faulty variant: every bookmark of the state is emptied
reset_stream_all(st, id) ==
    [st EXCEPT !.bookmarks =
        [i \in DOMAIN st.bookmarks \cup {id} |-> EmptyBookmark]]

\* singer.reset_stream(state, tap_stream_id)
reset_stream(st, id) ==
    [st EXCEPT !.bookmarks =
        [i \in DOMAIN st.bookmarks \cup {id} |->
            IF i = id THEN EmptyBookmark ELSE st.bookmarks[i]]]

\* singer.set_currently_syncing(state, tap_stream_id)
set_currently_syncing(st, id) == [st EXCEPT !.currently_syncing = id]

\* singer.get_currently_syncing(state)
get_currently_syncing(st) == st.currently_syncing

(***************************************************************************)
(* __init__.py: clear_state_on_replication_change.  A stream descriptor is *)
(* [tap_stream_id, selected, method, key, projection], the last four read  *)
(* from its metadata.                                                      *)
(***************************************************************************)
\* faulty variant: the bookmark is never reset
clear_state_keeps_bookmark(strm, st) ==
    LET id == strm.tap_stream_id
        s2 == IF strm.method = "INCREMENTAL"
              THEN write_bookmark(st, id, "replication_key_name", strm.key)
              ELSE st
    IN write_bookmark(s2, id, "last_replication_method", strm.method)

\* faulty variant: the method of this run is not recorded
clear_state_keeps_method(strm, st) ==
    LET id == strm.tap_stream_id
        last == get_bookmark(st, id, "last_replication_method")
        s1 == IF last # NoValue /\ strm.method # last
              THEN reset_stream(st, id) ELSE st
        lastkey == get_bookmark(s1, id, "replication_key_name")
        s2 == IF lastkey # NoValue /\ strm.key # lastkey
              THEN reset_stream(s1, id) ELSE s1
    IN IF strm.method = "INCREMENTAL"
       THEN write_bookmark(s2, id, "replication_key_name", strm.key)
       ELSE s1

\* faulty variant: a changed replication key does not reset the bookmark
clear_state_ignores_key(strm, st) ==
    LET id == strm.tap_stream_id
        last == get_bookmark(st, id, "last_replication_method")
        s1 == IF last # NoValue /\ strm.method # last
              THEN reset_stream(st, id) ELSE st
        s3 == IF strm.method = "INCREMENTAL"
              THEN write_bookmark(s1, id, "replication_key_name", strm.key)
              ELSE s1
    IN write_bookmark(s3, id, "last_replication_method", strm.method)

\* faulty variant: the bookmark is reset whenever a method is recorded
clear_state_resets_always(strm, st) ==
    LET id == strm.tap_stream_id
        last == get_bookmark(st, id, "last_replication_method")
        s1 == IF last # NoValue THEN reset_stream(st, id) ELSE st
        lastkey == get_bookmark(s1, id, "replication_key_name")
        s2 == IF lastkey # NoValue /\ strm.key # lastkey
              THEN reset_stream(s1, id) ELSE s1
        s3 == IF strm.method = "INCREMENTAL"
              THEN write_bookmark(s2, id, "replication_key_name", strm.key)
              ELSE s1
    IN write_bookmark(s3, id, "last_replication_method", strm.method)

\* lines 343-376
clear_state_on_replication_change(strm, st) ==
    LET id == strm.tap_stream_id
        last == get_bookmark(st, id, "last_replication_method")
        s1 == IF last # NoValue /\ strm.method # last
              THEN reset_stream(st, id) ELSE st
        lastkey == get_bookmark(s1, id, "replication_key_name")
        s2 == IF lastkey # NoValue /\ strm.key # lastkey
              THEN reset_stream(s1, id) ELSE s1
        s3 == IF strm.method = "INCREMENTAL"
              THEN write_bookmark(s2, id, "replication_key_name", strm.key)
              ELSE s1
    IN write_bookmark(s3, id, "last_replication_method", strm.method)

(***************************************************************************)
(* __init__.py: the selection and the order of the streams.                *)
(***************************************************************************)
\* faulty variant: a stream without selection flag counts as selected
is_stream_selected_unless_false(strm) == strm.selected # "False"

\* the flag is one of "True", "False" and NoValue (no flag in the metadata)
is_stream_selected(strm) == strm.selected = "True"

\* state.get('bookmarks', {}).get(tap_stream_id): a bookmark that is not empty
HasBookmark(st, strm) ==
    /\ strm.tap_stream_id \in DOMAIN st.bookmarks
    /\ st.bookmarks[strm.tap_stream_id] # EmptyBookmark

\* faulty variant: the selected streams in catalog order
get_streams_to_sync_catalog_order(streams, st) ==
    LET ordered_streams == SelectSeq(streams, is_stream_selected)
        currently_syncing == get_currently_syncing(st)
    IN IF currently_syncing # NoValue
       THEN SelectSeq(ordered_streams,
                      LAMBDA x : x.tap_stream_id = currently_syncing)
            \o SelectSeq(ordered_streams,
                         LAMBDA x : x.tap_stream_id # currently_syncing)
       ELSE ordered_streams

\* faulty variant: the currently-syncing marker is not looked at
get_streams_to_sync_without_marker(streams, st) ==
    LET selected_streams == SelectSeq(streams, is_stream_selected)
    IN SelectSeq(selected_streams, LAMBDA x : ~HasBookmark(st, x))
       \o SelectSeq(selected_streams, LAMBDA x : HasBookmark(st, x))

get_streams_to_sync(streams, st) ==
    LET selected_streams == SelectSeq(streams, is_stream_selected)
        streams_without_state ==
            SelectSeq(selected_streams, LAMBDA x : ~HasBookmark(st, x))
        streams_with_state ==
            SelectSeq(selected_streams, LAMBDA x : HasBookmark(st, x))
        ordered_streams == streams_without_state \o streams_with_state
        currently_syncing == get_currently_syncing(st)
    IN IF currently_syncing # NoValue
       THEN SelectSeq(ordered_streams,
                      LAMBDA x : x.tap_stream_id = currently_syncing)
            \o SelectSeq(ordered_streams,
                         LAMBDA x : x.tap_stream_id # currently_syncing)
       ELSE ordered_streams

(***************************************************************************)
(* __init__.py: load_stream_projection.  The projection of a descriptor is *)
(* the raw value of the metadata: NoValue or a string.  json_loads gives   *)
(* the outcome of json.loads for the strings of the model: an error or a   *)
(* value [kind, truthy, fields].                                           *)
(***************************************************************************)
Projections ==
    {NoValue, "", "\"\"", "{a: 1", "{\"a\": 1}", "{\"_id\": 0}",
     "{\"_id\": 1, \"a\": 0}", "[\"a\"]", "0"}

NoFields == [f \in {} |-> 0]

json_loads(raw) ==
    CASE raw = "{\"a\": 1}" ->
           [error |-> NoValue, kind |-> "object", truthy |-> TRUE,
            fields |-> [f \in {"a"} |-> 1]]
      [] raw = "{\"_id\": 0}" ->
           [error |-> NoValue, kind |-> "object", truthy |-> TRUE,
            fields |-> [f \in {"_id"} |-> 0]]
      [] raw = "{\"_id\": 1, \"a\": 0}" ->
           [error |-> NoValue, kind |-> "object", truthy |-> TRUE,
            fields |-> [f \in {"_id", "a"} |-> IF f = "_id" THEN 1 ELSE 0]]
      [] raw = "[\"a\"]" ->
           [error |-> NoValue, kind |-> "array", truthy |-> TRUE,
            fields |-> NoFields]
      [] raw = "0" ->
           [error |-> NoValue, kind |-> "number", truthy |-> FALSE,
            fields |-> NoFields]
      [] OTHER ->
           [error |-> "JSONDecodeError", kind |-> NoValue, truthy |-> FALSE,
            fields |-> NoFields]

\* the projection, or the exception raised
load_stream_projection(strm) ==
    IF strm.projection \in {NoValue, "", "\"\""}
    THEN [raised |-> NoValue, value |-> NoValue]
    ELSE LET p == json_loads(strm.projection)
         IN IF p.error # NoValue
            THEN [raised |-> "InvalidProjectionException", value |-> NoValue]
            ELSE IF p.truthy /\ p.kind # "object"
            THEN [raised |-> "AttributeError", value |-> NoValue]
            ELSE IF p.truthy /\ "_id" \in DOMAIN p.fields /\ p.fields["_id"] = 0
            THEN [raised |-> "InvalidProjectionException", value |-> NoValue]
            ELSE [raised |-> NoValue, value |-> p]

(***************************************************************************)
(* __init__.py: sync_stream, before and after the sync of the collection.  *)
(***************************************************************************)
\* a state message holds a copy of the whole state
StateMessageOf(st) == [type |-> "STATE", value |-> st]

\* a message of a stream: SCHEMA, ACTIVATE_VERSION or RECORD
StreamMessage(kind, strm) == [type |-> kind, stream |-> strm.tap_stream_id]

SupportedMethods == {"LOG_BASED", "FULL_TABLE", "INCREMENTAL"}

\* faulty variant: the schema message is written before the state message
sync_stream_begin_schema_first(strm, st) ==
    LET proj == load_stream_projection(strm)
        started == set_currently_syncing(clear_state_on_replication_change(strm, st),
                                         strm.tap_stream_id)
    IN IF proj.raised # NoValue
       THEN [state |-> st, msgs |-> <<>>, raised |-> proj.raised]
       ELSE [state |-> started,
             msgs |-> <<StreamMessage("SCHEMA", strm), StateMessageOf(started)>>,
             raised |-> IF strm.method \in SupportedMethods THEN NoValue
                        ELSE "InvalidReplicationMethodException"]

\* lines 379-425: the state, the messages written and the exception raised,
\* if any, up to the call of the strategy's sync_collection
sync_stream_begin(strm, st) ==
    LET proj == load_stream_projection(strm)
        started == set_currently_syncing(clear_state_on_replication_change(strm, st),
                                         strm.tap_stream_id)
    IN IF proj.raised # NoValue
       THEN [state |-> st, msgs |-> <<>>, raised |-> proj.raised]
       ELSE [state |-> started,
             msgs |-> <<StateMessageOf(started), StreamMessage("SCHEMA", strm)>>,
             raised |-> IF strm.method \in SupportedMethods THEN NoValue
                        ELSE "InvalidReplicationMethodException"]

\* faulty variant: the marker is not cleared when the stream is finished
sync_stream_end_keeps_marker(st) ==
    [state |-> st, msgs |-> <<StateMessageOf(st)>>]

\* lines 427-429
sync_stream_end(st) ==
    LET cleared == set_currently_syncing(st, NoValue)
    IN [state |-> cleared, msgs |-> <<StateMessageOf(cleared)>>]

(***************************************************************************)
(* The feed.  input scripts a prefix of the feed: ins1 inserts, then upd   *)
(* updates of distinct documents, then ins2 inserts, all of documents of   *)
(* their own that exist.  After the prefix the feed delivers up to MaxTail *)
(* events chosen freely among the inserts, updates and deletes of the      *)
(* documents 1..MaxId (tail of them; one fewer after a long prefix), and   *)
(* version starts as the version of the bookmark, 0 when it has none.      *)
(***************************************************************************)
Scripts ==
    { [ins1 |-> 0, upd |-> 0, ins2 |-> 0, tail |-> MaxTail],
      [ins1 |-> 1, upd |-> MAX_UPDATE_BUFFER_LENGTH - 1, ins2 |-> 0,
       tail |-> MaxTail - 1],
      [ins1 |-> UPDATE_BOOKMARK_PERIOD - 1, upd |-> 0, ins2 |-> 0,
       tail |-> MaxTail - 1],
      [ins1 |-> 1, upd |-> 1, ins2 |-> UPDATE_BOOKMARK_PERIOD - 2,
       tail |-> MaxTail - 1],
      [ins1 |-> UPDATE_BOOKMARK_PERIOD - MAX_UPDATE_BUFFER_LENGTH,
       upd |-> MAX_UPDATE_BUFFER_LENGTH - 1, ins2 |-> 0,
       tail |-> MaxTail - 1] }

ScriptLen(in) == in.ins1 + in.upd + in.ins2

\* the (p+1)-th event of the feed, p < ScriptLen(in)
ScriptEvent(in, p) ==
    [op |-> IF p >= in.ins1 /\ p < in.ins1 + in.upd THEN "update" ELSE "insert",
     id |-> RampBase + p, ts |-> p + 1]

\* the events the feed may deliver next, at position p
NextEvents(in, p) ==
    IF p < ScriptLen(in) THEN {ScriptEvent(in, p)}
    ELSE IF p < ScriptLen(in) + in.tail
    THEN [op : {"insert", "update", "delete"}, id : TailIds, ts : {p + 1}]
    ELSE {}

Init ==
    /\ pc = "start"
    /\ input \in Scripts
    /\ missing = {x \in TailIds : x % 2 = 0}
    /\ alive = FALSE
    /\ pos = 0
    /\ change = None
    /\ token = 0
    /\ version \in {0, 5}
    /\ rows_saved = 0
    /\ update_buffer = {}
    /\ schema = EmptySchema
    /\ out = <<>>
    /\ finds = 0
    /\ state = EmptyState
    /\ streams_to_sync = <<>>
    /\ stream = NoValue
    /\ raised = NoValue

\* lines 88-110: the version, the activate-version message, the locals, the cursor
Start ==
    /\ pc = "start"
    /\ pc' = "loop"
    /\ version' = get_stream_version(version, 1)
    /\ out' = Append(out, ActivateVersionMessage(version'))
    /\ rows_saved' = 0
    /\ update_buffer' = {}
    /\ schema' = EmptySchema
    /\ alive' = TRUE
    /\ pos' = token
    /\ UNCHANGED <<input, missing, change, token, finds>>
    /\ UNCHANGED runvars

\* faulty variant: the loop is left without writing the state
NoChange_silent ==
    /\ pc = "loop" /\ alive
    /\ pos >= ScriptLen(input)
    /\ change' = None
    /\ token' = update_bookmarks(token, pos)
    /\ pc' = "exit"
    /\ UNCHANGED <<input, missing, alive, pos, version, rows_saved,
                   update_buffer, schema, finds, out>>
    /\ UNCHANGED runvars

\* faulty variant: the loop goes on when no event was returned
NoChange_spins ==
    /\ pc = "loop" /\ alive
    /\ pos >= ScriptLen(input)
    /\ UNCHANGED vars

\* lines 116-128: try_next returned nothing within MAX_AWAIT_TIME_MS
NoChange ==
    /\ pc = "loop" /\ alive
    /\ pos >= ScriptLen(input)
    /\ change' = None
    /\ token' = update_bookmarks(token, pos)
    /\ out' = Append(out, StateMessage(token'))
    /\ pc' = "exit"
    /\ UNCHANGED <<input, missing, alive, pos, version, rows_saved,
                   update_buffer, schema, finds>>
    /\ UNCHANGED runvars

\* lines 112-178: one iteration that read the event ev; the cursor may be
\* dead afterwards
OnChange(ev, dead) ==
    /\ pc = "loop" /\ alive
    /\ ev \in NextEvents(input, pos)
    /\ dead => pos >= ScriptLen(input)
    /\ change' = ev
    /\ pos' = pos + 1
    /\ alive' = ~dead
    /\ pc' = "loop"
    /\ \E tok \in {update_bookmarks(token, pos)},
          d \in {Dispatch(ev, update_buffer, rows_saved, version, schema)} :
        \E e \in {EndOfIteration(d, tok, missing, version)} :
          /\ token' = tok
          /\ update_buffer' = e.update_buffer
          /\ rows_saved' = e.rows_saved
          /\ schema' = e.schema
          /\ out' = out \o e.msgs
          /\ finds' = finds + e.finds
    /\ UNCHANGED <<input, missing, version>>
    /\ UNCHANGED runvars

\* lines 180-186: the flush after the loop
FinalFlush ==
    /\ pc = "exit" \/ (pc = "loop" /\ ~alive)
    /\ pc' = "returned"
    /\ finds' = finds + 1
    /\ \E f \in {flush_buffer(update_buffer, missing, version, schema)} :
          /\ rows_saved' = rows_saved + f.rows_saved
          /\ update_buffer' = f.buffer
          /\ schema' = f.schema
          /\ out' = out \o f.msgs
    /\ UNCHANGED <<input, missing, alive, pos, change, token, version>>
    /\ UNCHANGED runvars

Next ==
    \/ Start
    \/ NoChange
    \/ \E ev \in NextEvents(input, pos), dead \in BOOLEAN : OnChange(ev, dead)
    \/ FinalFlush

Spec == Init /\ [][Next]_vars

FairSpec == Spec /\ WF_vars(Next)

(***************************************************************************)
(* flush_buffer on its own: any buffer over 1..MaxFlushIds, any content of *)
(* the collection.  input keeps the buffer that was passed.                *)
(***************************************************************************)
FlushIds == 1..MaxFlushIds

FlushInit ==
    /\ pc = "call"
    /\ update_buffer \in SUBSET FlushIds
    /\ input = [buffer |-> update_buffer]
    /\ missing \in SUBSET FlushIds
    /\ alive = FALSE
    /\ pos = 0
    /\ change = None
    /\ token = 0
    /\ version = 1
    /\ rows_saved = 0
    /\ schema = EmptySchema
    /\ out = <<>>
    /\ finds = 0
    /\ state = EmptyState
    /\ streams_to_sync = <<>>
    /\ stream = NoValue
    /\ raised = NoValue

\* rows_saved holds the value flush_buffer returned
FlushCall ==
    /\ pc = "call"
    /\ \E f \in {flush_buffer(update_buffer, missing, version, schema)} :
          /\ rows_saved' = f.rows_saved
          /\ update_buffer' = f.buffer
          /\ schema' = f.schema
          /\ out' = out \o f.msgs
    /\ finds' = finds + 1
    /\ pc' = "flushed"
    /\ UNCHANGED <<input, missing, alive, pos, change, token, version>>
    /\ UNCHANGED runvars

FlushNext == FlushCall

FlushSpec == FlushInit /\ [][FlushNext]_vars

(***************************************************************************)
(* clear_state_on_replication_change on its own: one stream, any           *)
(* configured method and key, any bookmark of a previous run.  input keeps *)
(* the stream and the state that were passed.                              *)
(***************************************************************************)
Methods == {"LOG_BASED", "FULL_TABLE", "INCREMENTAL", "OTHER"}

Keys == {"a", "b"}

BookmarkFields ==
    {"last_replication_method", "replication_key_name", "replication_key_value",
     "token", "version"}

FieldValues(f) ==
    CASE f = "last_replication_method" -> Methods
      [] f = "replication_key_name" -> Keys
      [] f = "replication_key_value" -> {"k9"}
      [] f = "token" -> {"t7"}
      [] f = "version" -> {"v5"}

Bookmarks ==
    UNION {{b \in [D -> UNION {FieldValues(f) : f \in BookmarkFields}] :
               \A f \in D : b[f] \in FieldValues(f)} :
           D \in SUBSET BookmarkFields}

\* the state of a previous run that holds the bookmark b for the stream id
StateWith(id, b) == [bookmarks |-> [i \in {id} |-> b], currently_syncing |-> NoValue]

ClearInit ==
    /\ pc = "call_clear"
    /\ input \in [stream : [tap_stream_id : {"s1"}, selected : {"True"},
                            method : Methods \cup {NoValue},
                            key : Keys \cup {NoValue},
                            projection : {NoValue}],
                  state : {EmptyState} \cup {StateWith("s1", b) : b \in Bookmarks}]
    /\ state = input.state
    /\ missing = {}
    /\ alive = FALSE
    /\ pos = 0
    /\ change = None
    /\ token = 0
    /\ version = 0
    /\ rows_saved = 0
    /\ update_buffer = {}
    /\ schema = EmptySchema
    /\ out = <<>>
    /\ finds = 0
    /\ streams_to_sync = <<>>
    /\ stream = NoValue
    /\ raised = NoValue

ClearCall ==
    /\ pc = "call_clear"
    /\ state' = clear_state_on_replication_change(input.stream, state)
    /\ pc' = "cleared"
    /\ UNCHANGED <<input, out, streams_to_sync, stream, raised>>
    /\ UNCHANGED syncvars

ClearNext == ClearCall

ClearSpec == ClearInit /\ [][ClearNext]_vars

(***************************************************************************)
(* get_streams_to_sync on its own: a catalog of MaxStreams streams, each   *)
(* with any selection flag and with no bookmark, an empty one or one that  *)
(* holds something, and any currently-syncing marker: none, a stream of    *)
(* the catalog, or a stream the catalog does not have.                     *)
(***************************************************************************)
StreamIds == <<"s1", "s2", "s3", "s4", "s5">>

UnknownStream == "gone"

\* the descriptor of the i-th stream of a catalog
Descriptor(i, sel, method, key, projection) ==
    [tap_stream_id |-> StreamIds[i], selected |-> sel, method |-> method,
     key |-> key, projection |-> projection]

\* the states that hold for each of the streams ids one of the bookmarks bs,
\* or none
StatesOver(ids, bs, markers) ==
    UNION {[bookmarks : [D -> bs], currently_syncing : markers] :
           D \in SUBSET ids}

OrderInit ==
    /\ pc = "call_order"
    /\ \E sel \in [1..MaxStreams -> {"True", "False", NoValue}] :
          \E st \in StatesOver({StreamIds[i] : i \in 1..MaxStreams},
                               {EmptyBookmark,
                                [f \in {"version"} |-> "v5"]},
                               {NoValue, UnknownStream}
                                  \cup {StreamIds[i] : i \in 1..MaxStreams}) :
             input = [catalog |-> [i \in 1..MaxStreams |->
                                      Descriptor(i, sel[i], "LOG_BASED",
                                                 NoValue, NoValue)],
                      state |-> st]
    /\ state = input.state
    /\ missing = {}
    /\ alive = FALSE
    /\ pos = 0
    /\ change = None
    /\ token = 0
    /\ version = 0
    /\ rows_saved = 0
    /\ update_buffer = {}
    /\ schema = EmptySchema
    /\ out = <<>>
    /\ finds = 0
    /\ streams_to_sync = <<>>
    /\ stream = NoValue
    /\ raised = NoValue

OrderCall ==
    /\ pc = "call_order"
    /\ streams_to_sync' = get_streams_to_sync(input.catalog, state)
    /\ pc' = "ordered"
    /\ UNCHANGED <<input, out, state, stream, raised>>
    /\ UNCHANGED syncvars

OrderNext == OrderCall

OrderSpec == OrderInit /\ [][OrderNext]_vars

(***************************************************************************)
(* do_sync: a whole run over a catalog of MaxRunStreams selected streams.  *)
(* One stream of the catalog has any of RichConfigs and any of             *)
(* RichBookmarks, or no bookmark; the others are LOG_BASED streams without *)
(* projection, with PlainBookmark or no bookmark.  The sync of a collection is the            *)
(* environment of sync_stream: it writes up to MaxBody messages of its     *)
(* stream (the version activation, then records and checkpoints in turn)   *)
(* and returns or raises.  streams_to_sync holds the streams still to be   *)
(* synced, stream the one being synced, rows_saved the number of messages  *)
(* its sync_collection has written, raised the exception that ended the    *)
(* run.                                                                    *)
(***************************************************************************)
RichConfigs ==
    [method : {"LOG_BASED"}, key : {NoValue}, projection : Projections]
    \cup [method : {"FULL_TABLE", "OTHER"}, key : {NoValue}, projection : {NoValue}]
    \cup [method : {"INCREMENTAL"}, key : Keys, projection : {NoValue, "{\"a\": 1}"}]
    \cup [method : {"OTHER"}, key : {NoValue}, projection : {"{\"_id\": 0}"}]

RichBookmarks ==
    {b \in Bookmarks :
        \/ /\ DOMAIN b = {"last_replication_method", "replication_key_name",
                          "replication_key_value", "version"}
           /\ b["last_replication_method"] = "INCREMENTAL"
           /\ b["replication_key_name"] = "a"
        \/ /\ DOMAIN b = {"last_replication_method", "token", "version"}
           /\ b["last_replication_method"] = "LOG_BASED"}

PlainBookmark ==
    [f \in {"last_replication_method", "token"} |->
        IF f = "token" THEN "t7" ELSE "LOG_BASED"]

RunIds == {StreamIds[i] : i \in 1..MaxRunStreams}

RunInit ==
    /\ pc = "do_sync"
    /\ \E k \in 1..MaxRunStreams, c \in RichConfigs :
          \E st \in {s \in StatesOver(RunIds, RichBookmarks \cup {PlainBookmark},
                                      {NoValue} \cup RunIds) :
                         \A i \in DOMAIN s.bookmarks :
                            i = StreamIds[k] <=> s.bookmarks[i] \in RichBookmarks} :
             input = [catalog |-> [i \in 1..MaxRunStreams |->
                                      IF i = k
                                      THEN Descriptor(i, "True", c.method, c.key,
                                                      c.projection)
                                      ELSE Descriptor(i, "True", "LOG_BASED",
                                                      NoValue, NoValue)],
                      state |-> st]
    /\ state = input.state
    /\ missing = {}
    /\ alive = FALSE
    /\ pos = 0
    /\ change = None
    /\ token = 0
    /\ version = 0
    /\ rows_saved = 0
    /\ update_buffer = {}
    /\ schema = EmptySchema
    /\ out = <<>>
    /\ finds = 0
    /\ streams_to_sync = <<>>
    /\ stream = NoValue
    /\ raised = NoValue

\* lines 440-441
DoSync ==
    /\ pc = "do_sync"
    /\ streams_to_sync' = get_streams_to_sync(input.catalog, state)
    /\ pc' = "next"
    /\ UNCHANGED <<input, out, state, stream, raised>>
    /\ UNCHANGED syncvars

\* lines 379-425: sync_stream up to the call of the strategy
SyncStreamBegin ==
    /\ pc = "next" /\ streams_to_sync # <<>>
    /\ stream' = Head(streams_to_sync)
    /\ \E b \in {sync_stream_begin(Head(streams_to_sync), state)} :
          /\ state' = b.state
          /\ out' = out \o b.msgs
          /\ raised' = b.raised
          /\ pc' = IF b.raised = NoValue THEN "syncing" ELSE "failed"
    /\ rows_saved' = 0
    /\ UNCHANGED <<input, streams_to_sync, missing, alive, pos, change, token,
                   version, update_buffer, schema, finds>>

\* the kind of the n-th message a sync_collection writes
BodyKind(n) ==
    IF n = 1 THEN "ACTIVATE_VERSION" ELSE IF n % 2 = 0 THEN "RECORD" ELSE "STATE"

\* the strategy writes its next message; a LOG_BASED checkpoint follows
\* update_bookmarks
SyncCollectionWrites ==
    /\ pc = "syncing" /\ rows_saved < MaxBody
    /\ rows_saved' = rows_saved + 1
    /\ IF BodyKind(rows_saved') = "STATE"
       THEN /\ state' = IF stream.method = "LOG_BASED"
                        THEN write_bookmark(state, stream.tap_stream_id, "token", "t8")
                        ELSE state
            /\ out' = Append(out, StateMessageOf(state'))
       ELSE /\ state' = state
            /\ out' = Append(out, StreamMessage(BodyKind(rows_saved'), stream))
    /\ UNCHANGED <<pc, input, streams_to_sync, stream, raised, missing, alive, pos,
                   change, token, version, update_buffer, schema, finds>>

\* the documents the collection of a run may hold: one with a datetime,
\* one whose datetime cannot be converted to UTC, one with such a datetime
\* inside a list
RunDocs ==
    {DocOf(1),
     [_id |-> [k |-> "int", x |-> 2], v |-> [k |-> "datetime", x |-> 0]],
     [_id |-> [k |-> "int", x |-> 3],
      v |-> [k |-> "list", x |-> <<[k |-> "int", x |-> 3], [k |-> "datetime", x |-> 0]>>]]}

\* the strategy reads a document that row_to_singer_record raises on: the
\* schema message, if the document changes the schema, is written before
\* (change_streams.py lines 133-136), the exception leaves sync_collection,
\* sync_stream and do_sync
SyncCollectionRaises ==
    /\ pc = "syncing"
    /\ \E doc \in RunDocs :
          /\ row_to_singer_record_raises(doc) # NoValue
          /\ change' = doc
          /\ raised' = row_to_singer_record_raises(doc)
          /\ \E w \in {write_schema(schema, doc)} :
                /\ schema' = w.schema
                /\ out' = out \o (IF w.msgs # <<>>
                                  THEN <<StreamMessage("SCHEMA", stream)>> ELSE <<>>)
    /\ pc' = "failed"
    /\ UNCHANGED <<input, state, streams_to_sync, stream, missing, alive, pos,
                   token, version, rows_saved, update_buffer, finds>>

\* lines 427-429, and the next turn of the loop of do_sync
SyncStreamEnd ==
    /\ pc = "syncing"
    /\ \E e \in {sync_stream_end(state)} :
          /\ state' = e.state
          /\ out' = out \o e.msgs
    /\ streams_to_sync' = Tail(streams_to_sync)
    /\ pc' = "next"
    /\ UNCHANGED <<input, stream, raised>>
    /\ UNCHANGED syncvars

\* line 446
DoSyncEnd ==
    /\ pc = "next" /\ streams_to_sync = <<>>
    /\ pc' = "done"
    /\ UNCHANGED <<input, out, state, streams_to_sync, stream, raised>>
    /\ UNCHANGED syncvars

RunNext ==
    \/ DoSync
    \/ SyncStreamBegin
    \/ SyncCollectionWrites
    \/ SyncCollectionRaises
    \/ SyncStreamEnd
    \/ DoSyncEnd

RunSpec == RunInit /\ [][RunNext]_vars

(***************************************************************************)
(* update_schema_from_row on its own: the rows of one collection are       *)
(* merged, in any order and any number of times, into a schema that starts *)
(* empty.  input is the collection, change the row merged last, pc tells   *)
(* what the last call returned.  A collection holds rows of one family:    *)
(* scalars, lists of scalars, objects of scalars, the mixed shapes of one  *)
(* field, or values nested three deep.                                     *)
(***************************************************************************)
Plain == [k |-> "int", x |-> 1]

Date == [k |-> "datetime", x |-> 1]

Dec == [k |-> "decimal", x |-> 1]

Flt == [k |-> "float", x |-> 1]

Scalars == {Plain, Date, Dec, Flt}

ListOf(entries) == [k |-> "list", x |-> entries]

DictOf(fields) == [k |-> "dict", x |-> fields]

Lists == {ListOf(e) : e \in UNION {[1..n -> Scalars] : n \in 0..MaxItems}}

Dicts == {DictOf(f) : f \in UNION {[D -> Scalars] : D \in SUBSET {"a", "b"}}}

Pair(x, y) == [f \in {"a", "b"} |-> IF f = "a" THEN x ELSE y]

Single(x) == [f \in {"a"} |-> x]

ScalarRows == {[v |-> s] : s \in Scalars} \cup {[v |-> Plain, w |-> Date]}

ListRows == {[v |-> l] : l \in Lists} \cup {[v |-> Date], [v |-> Plain]}

DictRows == {[v |-> d] : d \in Dicts} \cup {[v |-> Dec], [v |-> Plain]}

MixedRows ==
    {[v |-> ListOf(<<Date, Dec>>)], [v |-> DictOf(Pair(Date, Dec))],
     [v |-> ListOf(<<Plain, Plain>>)], [v |-> DictOf(Pair(Plain, Plain))],
     [v |-> Date], [v |-> Flt], [v |-> Plain]}

NestedRows ==
    {[v |-> ListOf(<<ListOf(<<Date, Dec>>), DictOf(Pair(Date, Dec))>>)],
     [w |-> Plain,
      v |-> ListOf(<<ListOf(<<Plain, Plain>>), DictOf(Pair(Plain, Plain))>>)],
     [v |-> DictOf(Single(ListOf(<<Dec, Flt>>)))],
     [v |-> DictOf(Single(DictOf(Single(Flt))))],
     [v |-> DictOf(Single(DictOf(Single(ListOf(<<>>)))))],
     [v |-> ListOf(<<DictOf(Single(ListOf(<<Plain>>)))>>)],
     [v |-> ListOf(<<ListOf(<<>>)>>)],
     [v |-> Plain]}

Collections == {ScalarRows, ListRows, DictRows, MixedRows, NestedRows}

MergeInit ==
    /\ pc = "merge"
    /\ input \in Collections
    /\ schema = EmptySchema
    /\ change = None
    /\ missing = {}
    /\ alive = FALSE
    /\ pos = 0
    /\ token = 0
    /\ version = 0
    /\ rows_saved = 0
    /\ update_buffer = {}
    /\ out = <<>>
    /\ finds = 0
    /\ state = EmptyState
    /\ streams_to_sync = <<>>
    /\ stream = NoValue
    /\ raised = NoValue

MergeCall ==
    /\ \E row \in input :
          \E m \in {update_schema_from_row(schema, row)} :
             /\ change' = row
             /\ schema' = m.schema
             /\ pc' = IF m.changed THEN "changed" ELSE "unchanged"
    /\ UNCHANGED <<input, missing, alive, pos, token, version, rows_saved,
                   update_buffer, out, finds>>
    /\ UNCHANGED runvars

MergeNext == MergeCall

MergeSpec == MergeInit /\ [][MergeNext]_vars

(***************************************************************************)
(* row_to_singer_record on its own: one row, whose field v holds a scalar, *)
(* a list of up to MaxItems scalars or an object with one scalar field, is *)
(* converted to a record message, or the conversion raises.  The scalars   *)
(* include the sentinels MinKey and MaxKey and a datetime that cannot be   *)
(* converted to UTC.  input is the row, out the message written.           *)
(***************************************************************************)
MinKey == [k |-> "minkey", x |-> 1]

MaxKey == [k |-> "maxkey", x |-> 1]

BadDate == [k |-> "datetime", x |-> 0]

RecordScalars == Scalars \cup {MinKey, MaxKey, BadDate}

RecordValues ==
    RecordScalars
    \cup {ListOf(e) : e \in UNION {[1..n -> RecordScalars] : n \in 0..MaxItems}}
    \cup {DictOf(Single(s)) : s \in RecordScalars}

RecordInit ==
    /\ pc = "convert"
    /\ \E value \in RecordValues : input = [_id |-> Plain, v |-> value]
    /\ version \in {0, 5}
    /\ schema = EmptySchema
    /\ change = None
    /\ missing = {}
    /\ alive = FALSE
    /\ pos = 0
    /\ token = 0
    /\ rows_saved = 0
    /\ update_buffer = {}
    /\ out = <<>>
    /\ finds = 0
    /\ state = EmptyState
    /\ streams_to_sync = <<>>
    /\ stream = NoValue
    /\ raised = NoValue

\* lines 228-239, the conversion succeeds
RecordCall ==
    /\ pc = "convert"
    /\ row_to_singer_record_raises(input) = NoValue
    /\ out' = <<row_to_singer_record(input, version)>>
    /\ pc' = "converted"
    /\ UNCHANGED <<input, missing, alive, pos, change, token, version, rows_saved,
                   update_buffer, schema, finds>>
    /\ UNCHANGED runvars

\* lines 228-233, the conversion raises
RecordRaises ==
    /\ pc = "convert"
    /\ row_to_singer_record_raises(input) # NoValue
    /\ raised' = row_to_singer_record_raises(input)
    /\ pc' = "failed"
    /\ UNCHANGED <<input, missing, alive, pos, change, token, version, rows_saved,
                   update_buffer, schema, finds, out, state, streams_to_sync, stream>>

RecordNext == RecordCall \/ RecordRaises

RecordSpec == RecordInit /\ [][RecordNext]_vars

(***************************************************************************)
(* Properties.                                                             *)
(***************************************************************************)
IsRecord(m) == m.type = "RECORD"

IsState(m) == m.type = "STATE"

\* the messages a step writes
Written == SubSeq(out', Len(out) + 1, Len(out'))

RecordsOf(msgs) == SelectSeq(msgs, IsRecord)

RecordId(m) == m.record._id.x

IsTombstone(m) == IsRecord(m) /\ DOMAIN m.record = {"_id", "_sdc_deleted_at"}

\* a step that is one iteration of the loop
Iteration == pc = "loop" /\ alive

\* C1: a process killed at any point and resumed from the last checkpoint in
\* the output loses no event: whenever the last message written is a
\* checkpoint, its position is one the feed has reached and no update of a
\* document that exists is still waiting in the buffer for its record.
C1_CheckpointCoversNoPendingUpdate ==
    (out # <<>> /\ IsState(Last(out)))
        => (Last(out).token <= pos /\ update_buffer \ missing = {})

\* C2: when sync_collection has returned, no record follows the checkpoint
\* that carries the final feed position: the buffer was flushed before it.
C2_FlushBeforeFinalState ==
    pc = "returned" =>
        \A i \in 1..Len(out) :
            (IsState(out[i]) /\ out[i].token = token)
                => \A j \in (i + 1)..Len(out) : ~IsRecord(out[j])

\* C3: after every iteration of the loop, with or without an event, the
\* bookmark token is the feed position read at the start of that iteration.
C3_BookmarkIsPositionRead == [][Iteration => token' = pos]_vars

\* an iteration without event has just stopped the loop, after two events
C3_Witness == pc = "exit" /\ change = None /\ pos >= 2 /\ token = pos

\* C4: an iteration that gets no event sets the bookmark to the position it
\* read, writes that position in one checkpoint message and nothing else, and
\* leaves the loop; what follows reads no event, writes no checkpoint and
\* returns with the update buffer empty.
C4_IdleStop ==
    [][/\ (Iteration /\ change' = None)
            => /\ token' = pos
               /\ Written = <<StateMessage(pos)>>
               /\ pos' = pos
               /\ pc' = "exit"
       /\ pc = "exit"
            => /\ pos' = pos /\ change' = None /\ token' = token
               /\ \A i \in 1..Len(Written) : ~IsState(Written[i])
               /\ update_buffer' = {}
               /\ pc' = "returned"
       /\ pc # "returned"]_vars

\* returned after an idle stop that found an update still buffered
C4_Witness ==
    /\ pc = "returned" /\ change = None /\ update_buffer = {}
    /\ IsRecord(Last(out))
    /\ Cardinality({i \in 1..Len(out) : IsState(out[i])}) = 1

\* C5: sync_collection eventually returns, whatever events the feed delivers
\* before it goes quiet or its cursor dies.
C5_Terminates == <>(pc = "returned")

\* returned after the feed delivered an insert, an update and a delete
C5_Witness ==
    /\ pc = "returned" /\ input.ins1 = 0 /\ pos = 3
    /\ rows_saved = 2 /\ change.op = "delete"

\* C6: flush_buffer emits exactly one record per buffered identifier whose
\* document exists and none for the others, leaves the buffer empty and
\* returns the number of records it emitted.
C6_FlushEmitsExisting ==
    pc = "flushed" =>
        LET recs == RecordsOf(out)
        IN /\ \A x \in input.buffer \ missing :
                  Cardinality({i \in 1..Len(recs) : RecordId(recs[i]) = x}) = 1
           /\ \A i \in 1..Len(recs) : RecordId(recs[i]) \in input.buffer \ missing
           /\ update_buffer = {}
           /\ rows_saved = Len(recs)

\* four identifiers buffered, the document of one of them is missing
C6_Witness ==
    /\ pc = "flushed"
    /\ Cardinality(input.buffer) = 4
    /\ Cardinality(input.buffer \cap missing) = 1
    /\ rows_saved = 3

\* C7: the iteration that reads an insert or a delete event appends to the
\* output, before anything else but the schema message of that document, the
\* record of the event, and the counter grows by one for it (and by one for
\* every record a flush adds in the same iteration).
C7_InlineEmission ==
    [][(Iteration /\ change'.op \in {"insert", "delete"}) =>
          LET first == IF Written # <<>> /\ IsRecord(Written[1]) THEN 1 ELSE 2
              nrec == Len(RecordsOf(Written))
          IN /\ SubSeq(out', 1, Len(out)) = out
             /\ Len(Written) >= first
             /\ first = 2 => Written[1].type = "SCHEMA"
             /\ IsRecord(Written[first])
             /\ RecordId(Written[first]) = change'.id
             /\ IsTombstone(Written[first]) <=> change'.op = "delete"
             /\ rows_saved' = rows_saved + nrec
             /\ nrec >= 1
             /\ finds' = finds => nrec = 1]_vars

\* an insert and then a delete have been read
C7_Witness ==
    /\ pc = "loop" /\ input.ins1 = 0 /\ pos = 2 /\ rows_saved = 2
    /\ change.op = "delete" /\ IsTombstone(Last(out))

\* C8: the iteration that reads an update event adds the identifier to the
\* buffer; unless the buffer is flushed in that iteration it writes nothing
\* and leaves the counter alone, and whatever it writes are the records of a
\* flush: documents that are buffered and exist, counted one by one.
C8_UpdateDeferred ==
    [][(Iteration /\ change'.op = "update") =>
          LET recs == RecordsOf(Written)
          IN /\ finds' = finds
                   => /\ out' = out
                      /\ rows_saved' = rows_saved
                      /\ update_buffer' = update_buffer \cup {change'.id}
             /\ finds' # finds => update_buffer' = {}
             /\ rows_saved' = rows_saved + Len(recs)
             /\ \A i \in 1..Len(recs) :
                   /\ ~IsTombstone(recs[i])
                   /\ RecordId(recs[i]) \in (update_buffer \cup {change'.id}) \ missing]_vars

\* an update of a document that exists is buffered and nothing was flushed
C8_Witness ==
    /\ pc = "loop" /\ change.op = "update" /\ finds = 0
    /\ change.id \in update_buffer \ missing

\* C9: the iteration that reads a delete event of X leaves X out of the
\* buffer, writes a tombstone holding the identifier and the deletion time
\* only, and writes no other record of X; the flush after the loop writes
\* records of buffered identifiers only.
C9_DeleteDropsPending ==
    [][/\ (Iteration /\ change'.op = "delete") =>
             LET recs == RecordsOf(Written)
             IN /\ change'.id \notin update_buffer'
                /\ update_buffer' \subseteq update_buffer \ {change'.id}
                /\ Len(recs) >= 1
                /\ recs[1].record = [_id |-> [k |-> "int", x |-> change'.id],
                                     _sdc_deleted_at |-> [k |-> "str", x |-> change'.ts]]
                /\ \A i \in 2..Len(recs) : RecordId(recs[i]) # change'.id
       /\ (pc = "exit" \/ (pc = "loop" /\ ~alive)) =>
             \A i \in 1..Len(Written) :
                 IsRecord(Written[i]) => RecordId(Written[i]) \in update_buffer]_vars

\* an insert, an update of X and the delete of X were read and nothing was
\* flushed: the delete emptied the buffer
C9_Witness ==
    /\ pc = "loop" /\ input.ins1 = 0 /\ pos = 3 /\ rows_saved = 2
    /\ change.op = "delete" /\ finds = 0 /\ update_buffer = {}

\* C10: an iteration that processed an event queries the collection for the
\* buffered documents, once, if and only if after the dispatch the buffer
\* holds MAX_UPDATE_BUFFER_LENGTH identifiers or more, or the counter is a
\* multiple of UPDATE_BOOKMARK_PERIOD.
C10_FlushIff ==
    [][(Iteration /\ change' # None) =>
          LET ev == change'
              buffer == CASE ev.op = "update" -> update_buffer \cup {ev.id}
                          [] ev.op = "delete" -> update_buffer \ {ev.id}
                          [] OTHER -> update_buffer
              rows == IF ev.op = "update" THEN rows_saved ELSE rows_saved + 1
          IN /\ finds' \in {finds, finds + 1}
             /\ finds' = finds + 1
                   <=> \/ Cardinality(buffer) >= MAX_UPDATE_BUFFER_LENGTH
                       \/ rows % UPDATE_BOOKMARK_PERIOD = 0]_vars

\* the buffer reached its cap and was flushed: one row inserted, then the
\* MAX_UPDATE_BUFFER_LENGTH rows of one flush
C10_Witness ==
    /\ pc = "loop" /\ change.op = "update" /\ finds = 1
    /\ update_buffer = {}
    /\ rows_saved = MAX_UPDATE_BUFFER_LENGTH + 1

\* C11: an iteration that leaves the counter, flush included, on a multiple
\* of UPDATE_BOOKMARK_PERIOD writes one checkpoint, as its last message and
\* so after the records of the flush, and the checkpoint carries the bookmark
\* as that iteration updated it.
C11_CheckpointOnPeriod ==
    [][(Iteration /\ change' # None
            /\ rows_saved' % UPDATE_BOOKMARK_PERIOD = 0) =>
          /\ Written # <<>>
          /\ Last(Written) = StateMessage(token')
          /\ \A i \in 1..(Len(Written) - 1) : ~IsState(Written[i])]_vars

\* the flush of a full buffer brought the counter to the period: the
\* checkpoint follows the last record of the flush
C11_Witness ==
    /\ pc = "loop" /\ change.op = "update"
    /\ rows_saved = UPDATE_BOOKMARK_PERIOD
    /\ Len(out) >= 2
    /\ Last(out) = StateMessage(token)
    /\ IsRecord(out[Len(out) - 1])

\* the method recorded by the previous run, and whether it differs from the
\* configured one
LastMethod == get_bookmark(input.state, "s1", "last_replication_method")

MethodChanged == LastMethod # NoValue /\ LastMethod # input.stream.method

\* C12: when the bookmark records a method and the configured method is
\* another one, clear_state_on_replication_change leaves a bookmark without
\* token, version or key value: it holds the configured method and, for
\* INCREMENTAL, the configured key, and nothing else.
C12_MethodChangeResets ==
    (pc = "cleared" /\ MethodChanged) =>
        LET b == state.bookmarks["s1"]
        IN /\ DOMAIN b \subseteq {"last_replication_method", "replication_key_name"}
           /\ get_bookmark(state, "s1", "token") = NoValue
           /\ get_bookmark(state, "s1", "version") = NoValue
           /\ get_bookmark(state, "s1", "replication_key_value") = NoValue
           /\ "replication_key_name" \in DOMAIN b
                 => /\ input.stream.method = "INCREMENTAL"
                    /\ b["replication_key_name"] = input.stream.key

\* a LOG_BASED bookmark with token, version and key was cleared for FULL_TABLE
C12_Witness ==
    /\ pc = "cleared"
    /\ LastMethod = "LOG_BASED" /\ input.stream.method = "FULL_TABLE"
    /\ DOMAIN input.state.bookmarks["s1"] = BookmarkFields
    /\ DOMAIN state.bookmarks["s1"] = {"last_replication_method"}

\* C14 as stated: after clear_state_on_replication_change the bookmark
\* records the configured method as last_replication_method and the
\* configured key as replication_key_name, whatever the method.
C14_RecordsMethodAndKey ==
    pc = "cleared" =>
        /\ get_bookmark(state, "s1", "last_replication_method") = input.stream.method
        /\ get_bookmark(state, "s1", "replication_key_name") = input.stream.key

\* C14, amended: after clear_state_on_replication_change the bookmark
\* records the configured method as last_replication_method, whatever the
\* method and the previous bookmark; it records the configured key as
\* replication_key_name when the configured method is INCREMENTAL.
C14_RecordsMethodAndKeyIfIncremental ==
    pc = "cleared" =>
        /\ get_bookmark(state, "s1", "last_replication_method") = input.stream.method
        /\ input.stream.method = "INCREMENTAL"
              => get_bookmark(state, "s1", "replication_key_name") = input.stream.key

\* an INCREMENTAL stream whose bookmark held key a now records key b
C14_Witness ==
    /\ pc = "cleared"
    /\ input.stream.method = "INCREMENTAL" /\ input.stream.key = "b"
    /\ LastMethod = "INCREMENTAL"
    /\ get_bookmark(input.state, "s1", "replication_key_name") = "a"
    /\ state.bookmarks["s1"] = [f \in {"last_replication_method", "replication_key_name"} |->
                                IF f = "replication_key_name" THEN "b" ELSE "INCREMENTAL"]

\* the position of a stream in the catalog
CatalogIndex(strm) ==
    CHOOSE k \in 1..Len(input.catalog) :
        input.catalog[k].tap_stream_id = strm.tap_stream_id

\* in seq no stream with a bookmark comes before one without, and two
\* streams of the same group come in catalog order
Prioritised(seq) ==
    \A i, j \in 1..Len(seq) :
        i < j =>
            /\ HasBookmark(input.state, seq[i]) => HasBookmark(input.state, seq[j])
            /\ (HasBookmark(input.state, seq[i]) <=> HasBookmark(input.state, seq[j]))
                  => CatalogIndex(seq[i]) < CatalogIndex(seq[j])

\* C15: without currently-syncing marker, get_streams_to_sync returns the
\* selected streams without bookmark before those with one, each group in
\* catalog order.
C15_NewStreamsFirst ==
    (pc = "ordered" /\ input.state.currently_syncing = NoValue)
        => Prioritised(streams_to_sync)

\* the first stream of the catalog has a bookmark and comes last, after two
\* streams without one
C15_Witness ==
    /\ pc = "ordered" /\ input.state.currently_syncing = NoValue
    /\ Len(streams_to_sync) = 3
    /\ streams_to_sync[3] = input.catalog[1]
    /\ HasBookmark(input.state, input.catalog[1])
    /\ ~HasBookmark(input.state, streams_to_sync[2])

\* the marker names a selected stream of the catalog
MarkerSelected ==
    \E k \in 1..Len(input.catalog) :
        /\ input.catalog[k].tap_stream_id = input.state.currently_syncing
        /\ input.catalog[k].selected = "True"

\* C16: when the marker names a selected stream, get_streams_to_sync
\* returns that stream first, with or without bookmark, and after it the
\* other streams in the order they have without marker.
C16_MarkedStreamFirst ==
    (pc = "ordered" /\ MarkerSelected) =>
        /\ streams_to_sync # <<>>
        /\ streams_to_sync[1].tap_stream_id = input.state.currently_syncing
        /\ Prioritised(Tail(streams_to_sync))
        /\ \A i \in 2..Len(streams_to_sync) :
              streams_to_sync[i].tap_stream_id # input.state.currently_syncing

\* the marked stream has a bookmark and is the last of the catalog; it comes
\* first, before a stream without bookmark
C16_Witness ==
    /\ pc = "ordered" /\ MarkerSelected
    /\ Len(streams_to_sync) = 3
    /\ streams_to_sync[1] = input.catalog[3]
    /\ HasBookmark(input.state, streams_to_sync[1])
    /\ ~HasBookmark(input.state, streams_to_sync[2])

\* C17: get_streams_to_sync returns every stream whose selection flag is
\* true exactly once and no other stream, whatever the bookmarks and the
\* marker, a marker naming an unselected or unknown stream included.
C17_ExactlySelected ==
    pc = "ordered" =>
        /\ \A k \in 1..Len(input.catalog) :
              Cardinality({i \in 1..Len(streams_to_sync) :
                              streams_to_sync[i] = input.catalog[k]})
                 = IF input.catalog[k].selected = "True" THEN 1 ELSE 0
        /\ \A i \in 1..Len(streams_to_sync) :
              \E k \in 1..Len(input.catalog) : streams_to_sync[i] = input.catalog[k]

\* the marker names a stream that is not selected; a stream without flag and
\* the marked one are left out
C17_Witness ==
    /\ pc = "ordered" /\ ~MarkerSelected
    /\ input.state.currently_syncing = "s1"
    /\ input.catalog[1].selected = "False"
    /\ input.catalog[2].selected = NoValue
    /\ Len(streams_to_sync) = 1

\* the stream whose sync starts in this step
Starting == Head(streams_to_sync)

\* this step starts the sync of an INCREMENTAL stream whose bookmark was
\* written under INCREMENTAL with another replication key
KeyChanged ==
    /\ pc = "next" /\ streams_to_sync # <<>>
    /\ Starting.method = "INCREMENTAL"
    /\ get_bookmark(state, Starting.tap_stream_id, "last_replication_method")
          = "INCREMENTAL"
    /\ get_bookmark(state, Starting.tap_stream_id, "replication_key_name")
          \notin {NoValue, Starting.key}

(***************************************************************************)
(* C13: when the sync of a stream starts whose bookmark was written under  *)
(* INCREMENTAL with replication key a and that is now configured with key  *)
(* b, the first message written, the start-of-stream checkpoint, already   *)
(* carries the cleared bookmark: it names key b and the method and nothing *)
(* else, so the version, the key value and the prior key are gone.         *)
(***************************************************************************)
C13_KeyChangeClearsBeforeStart ==
    [][(KeyChanged /\ pc' = "syncing") =>
          /\ Written # <<>>
          /\ Written[1].type = "STATE"
          /\ Written[1].value.bookmarks[Starting.tap_stream_id]
                = [f \in {"replication_key_name", "last_replication_method"} |->
                      IF f = "replication_key_name" THEN Starting.key
                      ELSE "INCREMENTAL"]
          /\ state'.bookmarks[Starting.tap_stream_id]
                = Written[1].value.bookmarks[Starting.tap_stream_id]]_vars

\* the sync of a stream reconfigured from key a to key b has started, and
\* the bookmark it came with held a version and a key value
C13_Witness ==
    /\ pc = "syncing" /\ rows_saved = 0
    /\ stream.method = "INCREMENTAL" /\ stream.key = "b"
    /\ get_bookmark(input.state, stream.tap_stream_id, "replication_key_name") = "a"
    /\ get_bookmark(input.state, stream.tap_stream_id, "version") = "v5"
    /\ get_bookmark(input.state, stream.tap_stream_id, "replication_key_value") = "k9"
    /\ get_bookmark(state, stream.tap_stream_id, "version") = NoValue

\* message m belongs to the sync of stream id: a message of that stream, or
\* a checkpoint whose marker names it
MessageOf(m, id) ==
    IF m.type = "STATE" THEN m.value.currently_syncing = id ELSE m.stream = id

\* message m is a checkpoint whose marker is marker
IsCheckpointOf(m, marker) ==
    m.type = "STATE" /\ m.value.currently_syncing = marker

(***************************************************************************)
(* C18: the sync of a stream is bracketed by two checkpoints.  The step    *)
(* that starts a stream writes, before anything else and with nothing of   *)
(* that stream written earlier, a state message whose marker is the        *)
(* stream; everything written while the stream is synced belongs to it;    *)
(* and the step that ends a successful sync writes last a state message    *)
(* whose marker is cleared, so that it follows every record of the stream. *)
(***************************************************************************)
C18_BracketedByCheckpoints ==
    [][/\ (pc = "next" /\ Written # <<>>) =>
             /\ IsCheckpointOf(Written[1], Starting.tap_stream_id)
             /\ \A i \in 1..Len(out) : ~MessageOf(out[i], Starting.tap_stream_id)
             /\ \A i \in 2..Len(Written) :
                   Written[i].type # "STATE" /\ Written[i].stream = Starting.tap_stream_id
       /\ (pc = "syncing" /\ pc' = "syncing") =>
             \A i \in 1..Len(Written) : MessageOf(Written[i], stream.tap_stream_id)
       /\ (pc = "syncing" /\ pc' = "next") =>
             /\ Written # <<>>
             /\ IsCheckpointOf(Last(out'), NoValue)
             /\ \A i \in 1..Len(out') :
                   MessageOf(out'[i], stream.tap_stream_id) => i < Len(out')]_vars

\* a second stream was synced to its end after the first: its start
\* checkpoint, schema, version activation, record, checkpoint, end checkpoint
C18_Witness ==
    /\ pc = "next" /\ streams_to_sync = <<>>
    /\ rows_saved = MaxBody
    /\ Len(out) > MaxBody + 3
    /\ \E i \in 1..Len(out) : out[i].type = "RECORD" /\ out[i].stream = stream.tap_stream_id
    /\ \E i \in 1..Len(out) : out[i].type = "SCHEMA" /\ out[i].stream # stream.tap_stream_id
    /\ state.currently_syncing = NoValue

(***************************************************************************)
(* C19: a stream whose replication method is none of FULL_TABLE,           *)
(* INCREMENTAL and LOG_BASED is aborted with                               *)
(* InvalidReplicationMethodException before any output: when that          *)
(* exception has been raised, no state, schema or other message of the     *)
(* stream has been written.                                                *)
(***************************************************************************)
C19_InvalidMethodBeforeOutput ==
    raised = "InvalidReplicationMethodException" =>
        \A i \in 1..Len(out) : ~MessageOf(out[i], stream.tap_stream_id)

\* a projection is configured for the stream
HasProjection(strm) == strm.projection \notin {NoValue, "", "\"\""}

\* the configured projection is no projection document: it is not JSON, or
\* it is JSON that is not an object
Malformed(strm) ==
    /\ HasProjection(strm)
    /\ json_loads(strm.projection).kind # "object"

\* the configured projection is a document that sets _id to 0
ExcludesKey(strm) ==
    /\ HasProjection(strm)
    /\ json_loads(strm.projection).kind = "object"
    /\ "_id" \in DOMAIN json_loads(strm.projection).fields
    /\ json_loads(strm.projection).fields["_id"] = 0

(***************************************************************************)
(* C20: the step that starts the sync of a stream whose projection is      *)
(* malformed or sets _id to 0 raises InvalidProjectionException, writes no *)
(* message and leaves the state (bookmarks and marker) as it was.          *)
(***************************************************************************)
C20_InvalidProjectionAtStart ==
    [][(/\ pc = "next" /\ streams_to_sync # <<>>
        /\ Malformed(Starting) \/ ExcludesKey(Starting)) =>
          /\ raised' = "InvalidProjectionException"
          /\ Written = <<>>
          /\ state' = state]_vars

\* the sync of a stream was aborted on a document whose datetime cannot be
\* converted
AbortedOnDocument == pc = "failed" /\ change # None

(***************************************************************************)
(* C21: when a datetime of a document cannot be normalised while its       *)
(* record is built, the sync of the stream is aborted with the wrapping    *)
(* SyncException, which names stream and document; no record of the        *)
(* document and no closing checkpoint is written, nothing is processed     *)
(* afterwards and the marker still names the stream.                       *)
(***************************************************************************)
C21_AbortsWithWrappedError ==
    AbortedOnDocument =>
        /\ raised = "SyncException"
        /\ Last(out).type # "RECORD"
        /\ ~IsCheckpointOf(Last(out), NoValue)
        /\ state.currently_syncing = stream.tap_stream_id
        /\ ~ENABLED RunNext

\* what merging again the row merged last would return
MergedAgain == update_schema_from_row(schema, change)

(***************************************************************************)
(* C22: the schema merge is idempotent.  Once a row has been merged into a *)
(* schema, a second merge of the same row returns false and leaves the     *)
(* schema as it is.                                                        *)
(***************************************************************************)
C22_MergeIdempotent ==
    pc \in {"changed", "unchanged"} =>
        /\ ~MergedAgain.changed
        /\ MergedAgain.schema = schema

\* the anyOf list ends with the catch-all, and so does every anyOf list
\* below it
RECURSIVE CatchAllLast(_)
CatchAllLast(anyOf) ==
    /\ anyOf # <<>>
    /\ Last(anyOf) = CatchAll
    /\ \A i \in 1..Len(anyOf) :
          CASE anyOf[i].type = "array" -> CatchAllLast(anyOf[i].items)
            [] anyOf[i].type = "object" ->
                 \A f \in DOMAIN anyOf[i].properties :
                    CatchAllLast(anyOf[i].properties[f])
            [] OTHER -> TRUE

\* the anyOf list holds an entry of the given type
HasType(anyOf, type) == LastOfType(anyOf, type) # 0

\* the entry of the given type of an anyOf list that has one
EntryOf(anyOf, type) == anyOf[LastOfType(anyOf, type)]

(***************************************************************************)
(* C23: after any sequence of merges every anyOf list of the schema, at    *)
(* every depth, holds the catch-all entry as its last element.             *)
(***************************************************************************)
C23_CatchAllLast ==
    \A f \in DOMAIN schema.properties : CatchAllLast(schema.properties[f])

\* a schema three lists deep: the field holds an array of arrays whose items
\* hold a date-time and a number before the catch-all
C23_Witness ==
    /\ "v" \in DOMAIN schema.properties
    /\ HasType(schema.properties["v"], "array")
    /\ HasType(EntryOf(schema.properties["v"], "array").items, "array")
    /\ Len(EntryOf(EntryOf(schema.properties["v"], "array").items, "array").items) = 3
    /\ HasType(EntryOf(schema.properties["v"], "array").items, "object")

\* the anyOf list new holds every entry of the anyOf list old, in the same
\* order: an entry is kept as it is, but for the marker of a number entry
\* and for what has grown below an array or object entry
RECURSIVE GrowsAnyOf(_, _)
GrowsAnyOf(old, new) ==
    /\ \A i \in 1..Len(old) :
          /\ HasType(new, old[i].type)
          /\ LET e == EntryOf(new, old[i].type)
             IN CASE old[i].type = "number" -> e.format = old[i].format
                  [] old[i].type = "array" -> GrowsAnyOf(old[i].items, e.items)
                  [] old[i].type = "object" ->
                       /\ DOMAIN old[i].properties \subseteq DOMAIN e.properties
                       /\ \A f \in DOMAIN old[i].properties :
                             GrowsAnyOf(old[i].properties[f], e.properties[f])
                  [] OTHER -> e = old[i]
    /\ \A i, j \in 1..Len(old) :
          i < j => LastOfType(new, old[i].type) < LastOfType(new, old[j].type)

(***************************************************************************)
(* C24: the schema only grows.  A merge keeps every field of properties    *)
(* and every entry of every anyOf list, in their order and at every depth; *)
(* the one change made to an entry that exists is that the marker of the   *)
(* number entry is set or removed.                                         *)
(***************************************************************************)
C24_OnlyGrows ==
    [][/\ DOMAIN schema.properties \subseteq DOMAIN schema'.properties
       /\ \A f \in DOMAIN schema.properties :
             GrowsAnyOf(schema.properties[f], schema'.properties[f])]_vars

\* a float has just removed the marker of the number entry of a field that
\* also holds a date-time entry
C24_Witness ==
    /\ pc = "changed"
    /\ change = [v |-> Flt]
    /\ schema.properties["v"] = <<DateTimeEntry, NumberEntry(FALSE), CatchAll>>

\* in the anyOf list and in every anyOf list below it, a date-time entry is
\* the first element and a number entry is the first element, or the second
\* when the list holds a date-time entry
RECURSIVE ScalarsInFront(_)
ScalarsInFront(anyOf) ==
    /\ HasDate(anyOf) => anyOf[1] = DateTimeEntry
    /\ HasType(anyOf, "number") =>
          LastOfType(anyOf, "number") = (IF HasDate(anyOf) THEN 2 ELSE 1)
    /\ \A i \in 1..Len(anyOf) :
          CASE anyOf[i].type = "array" -> ScalarsInFront(anyOf[i].items)
            [] anyOf[i].type = "object" ->
                 \A f \in DOMAIN anyOf[i].properties :
                    ScalarsInFront(anyOf[i].properties[f])
            [] OTHER -> TRUE

(***************************************************************************)
(* C25: a date-time entry is inserted at index 0 and a number entry at     *)
(* index 0, or at index 1 when a date-time entry is present.  In every     *)
(* anyOf list a date-time entry is therefore the first element and a       *)
(* number entry follows it directly or is the first element, and a field   *)
(* that held a date-time entry alone and then sees a decimal holds         *)
(* [date-time, number with marker, catch-all].                             *)
(***************************************************************************)
C25_AlternativeOrder ==
    /\ \A f \in DOMAIN schema.properties : ScalarsInFront(schema.properties[f])
    /\ \A row \in input :
          ("v" \in DOMAIN schema.properties
             /\ schema.properties["v"] = <<DateTimeEntry, CatchAll>>
             /\ row = [v |-> Dec])
          => update_schema_from_row(schema, row).schema.properties["v"]
                = <<DateTimeEntry, NumberEntry(TRUE), CatchAll>>

\* a decimal has just been merged into a field that held a date-time entry
C25_Witness ==
    /\ pc = "changed"
    /\ change = [v |-> Dec]
    /\ input = ScalarRows
    /\ schema.properties["v"] = <<DateTimeEntry, NumberEntry(TRUE), CatchAll>>

\* the number entries of an anyOf list, in order
NumberEntries(anyOf) == SelectSeq(anyOf, LAMBDA e : e.type = "number")

\* the anyOf list of the field v, before any was created: none
FieldV(sch) == IF "v" \in DOMAIN sch.properties THEN sch.properties["v"] ELSE <<>>

\* no anyOf list, at any depth, holds two number entries
RECURSIVE OneNumberSlot(_)
OneNumberSlot(anyOf) ==
    /\ Len(NumberEntries(anyOf)) <= 1
    /\ \A i \in 1..Len(anyOf) :
          CASE anyOf[i].type = "array" -> OneNumberSlot(anyOf[i].items)
            [] anyOf[i].type = "object" ->
                 \A f \in DOMAIN anyOf[i].properties :
                    OneNumberSlot(anyOf[i].properties[f])
            [] OTHER -> TRUE

(***************************************************************************)
(* C26: decimal and float share one number entry per field.  No anyOf list *)
(* holds two number entries; after a decimal was merged into a field its   *)
(* list holds one number entry, with the marker, after a float one without *)
(* it, whatever was there before; a merge of a value that is neither       *)
(* leaves the number entries of the field as they are, so the marker tells *)
(* the latest numeric value; and merging again the subtype merged last     *)
(* returns false.                                                          *)
(***************************************************************************)
C26_OneNumericSlot ==
    /\ \A f \in DOMAIN schema.properties : OneNumberSlot(schema.properties[f])
    /\ \A row \in input :
          LET m == update_schema_from_row(schema, row)
          IN /\ row = [v |-> Dec] =>
                   /\ NumberEntries(FieldV(m.schema)) = <<NumberEntry(TRUE)>>
                   /\ ~update_schema_from_row(m.schema, row).changed
             /\ row = [v |-> Flt] =>
                   /\ NumberEntries(FieldV(m.schema)) = <<NumberEntry(FALSE)>>
                   /\ ~update_schema_from_row(m.schema, row).changed
             /\ row.v.k \notin {"decimal", "float"} =>
                   NumberEntries(FieldV(m.schema)) = NumberEntries(FieldV(schema))

\* a float was merged into a field whose number entry a float had made:
\* the call returned false
C26_Witness ==
    /\ pc = "unchanged"
    /\ change = [v |-> Flt]
    /\ input = ScalarRows
    /\ FieldV(schema) = <<DateTimeEntry, NumberEntry(FALSE), CatchAll>>

\* the value is neither temporal, decimal, float, object nor array
PlainScalar(value) == value.k \notin {"datetime", "decimal", "float", "dict", "list"}

\* the value is a plain scalar, or a list or object that holds nothing but
\* plain scalars at every depth
RECURSIVE OnlyPlain(_)
OnlyPlain(value) ==
    CASE value.k = "list" -> \A i \in 1..Len(value.x) : OnlyPlain(value.x[i])
      [] value.k = "dict" -> \A f \in DOMAIN value.x : OnlyPlain(value.x[f])
      [] OTHER -> PlainScalar(value)

\* the number of array and object entries of an anyOf list, at every depth
RECURSIVE Composites(_, _)
Composites(anyOf, i) ==
    IF i > Len(anyOf) THEN 0
    ELSE Composites(anyOf, i + 1) +
         (CASE anyOf[i].type = "array" -> 1 + Composites(anyOf[i].items, 1)
            [] anyOf[i].type = "object" ->
                 1 + LET p == anyOf[i].properties
                     IN (IF "a" \in DOMAIN p THEN Composites(p["a"], 1) ELSE 0)
                        + (IF "b" \in DOMAIN p THEN Composites(p["b"], 1) ELSE 0)
            [] OTHER -> 0)

(***************************************************************************)
(* C27: plain scalars never change the schema.  The merge of a row whose   *)
(* values are all plain scalars returns false and leaves the schema as it  *)
(* is; the merge of a row whose value is a list or object holding only     *)
(* plain scalars at every depth returns false and adds no array or object  *)
(* entry at any depth.                                                     *)
(***************************************************************************)
C27_PlainScalarsChangeNothing ==
    \A row \in input :
       LET m == update_schema_from_row(schema, row)
       IN /\ (\A f \in DOMAIN row : PlainScalar(row[f])) =>
                ~m.changed /\ m.schema = schema
          /\ (\A f \in DOMAIN row : OnlyPlain(row[f])) =>
                /\ ~m.changed
                /\ Composites(FieldV(m.schema), 1) = Composites(FieldV(schema), 1)

\* a list of lists and objects of plain scalars was merged into a schema
\* that holds array and object entries for the field: the call returned false
C27_Witness ==
    /\ pc = "unchanged"
    /\ change.v = ListOf(<<ListOf(<<Plain, Plain>>), DictOf(Pair(Plain, Plain))>>)
    /\ Composites(FieldV(schema), 1) >= 3

\* the anyOf list of the field v as the merge finds it
FoundV(sch) == IF FieldV(sch) = <<>> THEN <<CatchAll>> ELSE FieldV(sch)

\* new is old with entry e inserted just before its last element
InsertedBeforeLast(old, new, e) ==
    /\ Len(new) = Len(old) + 1
    /\ SubSeq(new, 1, Len(old) - 1) = SubSeq(old, 1, Len(old) - 1)
    /\ new[Len(old)] = e
    /\ Last(new) = Last(old)

\* new is old but for the entry at index idx
SameButAt(old, new, idx) ==
    /\ Len(new) = Len(old)
    /\ \A i \in 1..Len(old) : i # idx => new[i] = old[i]

(***************************************************************************)
(* C28: when a list is merged into a field whose anyOf list holds no array *)
(* entry, an array entry is inserted just before the catch-all if an item  *)
(* changed the items list, else the anyOf list stays as it is; when an     *)
(* array entry exists, the items are merged into it in place and nothing   *)
(* is inserted.  The same holds for an object and the object entry, with   *)
(* the fields of the object in place of the items.                         *)
(***************************************************************************)
C28_CompositeInsertedOnlyIfChanged ==
    \A row \in input :
       LET old == FoundV(schema)
           new == FoundV(update_schema_from_row(schema, row).schema)
       IN /\ (row.v.k = "list" /\ ~HasType(old, "array")) =>
                LET items == AddEntries(<<CatchAll>>, row.v.x, 1)
                IN IF items.changed
                   THEN InsertedBeforeLast(old, new, ArrayEntry(items.anyOf))
                   ELSE new = old
          /\ (row.v.k = "list" /\ HasType(old, "array")) =>
                /\ SameButAt(old, new, LastOfType(old, "array"))
                /\ EntryOf(new, "array").items
                      = AddEntries(EntryOf(old, "array").items, row.v.x, 1).anyOf
          /\ (row.v.k = "dict" /\ ~HasType(old, "object")) =>
                LET obj == update_schema_from_row(ObjectEntry(NoProperties), row.v.x)
                IN IF obj.changed
                   THEN InsertedBeforeLast(old, new, obj.schema)
                   ELSE new = old
          /\ (row.v.k = "dict" /\ HasType(old, "object")) =>
                /\ SameButAt(old, new, LastOfType(old, "object"))
                /\ EntryOf(new, "object")
                      = update_schema_from_row(EntryOf(old, "object"), row.v.x).schema

\* a list with a decimal was merged into a field that held a date-time
\* entry: the array entry stands between the date-time entry and the
\* catch-all
C28_Witness ==
    /\ pc = "changed"
    /\ change = [v |-> ListOf(<<Dec>>)]
    /\ FieldV(schema)
          = <<DateTimeEntry, ArrayEntry(<<NumberEntry(TRUE), CatchAll>>), CatchAll>>

\* the entries of an anyOf list of the given type, in order
EntriesOfType(anyOf, type) == SelectSeq(anyOf, LAMBDA e : e.type = type)

(***************************************************************************)
(* C29: nested convergence.  A field that sees lists of a date-time and a  *)
(* decimal and objects with a date-time field and a decimal field, besides *)
(* scalars, holds at most one array entry, whose items are [date-time,     *)
(* number with marker, catch-all], and at most one object entry, with the  *)
(* anyOf list of each field, and the catch-all last.  Once it holds both,  *)
(* merging either shape again, or the same shapes with plain scalars only, *)
(* returns false and leaves the schema as it is.                           *)
(***************************************************************************)
C29_NestedConvergence ==
    input = MixedRows =>
        LET anyOf == FoundV(schema)
            arrays == EntriesOfType(anyOf, "array")
            objects == EntriesOfType(anyOf, "object")
        IN /\ Last(anyOf) = CatchAll
           /\ arrays \in {<<>>, <<ArrayEntry(<<DateTimeEntry, NumberEntry(TRUE), CatchAll>>)>>}
           /\ objects \in {<<>>, <<ObjectEntry(Pair(<<DateTimeEntry, CatchAll>>,
                                                   <<NumberEntry(TRUE), CatchAll>>))>>}
           /\ (arrays # <<>> /\ objects # <<>>) =>
                 \A row \in input :
                    row.v.k \in {"list", "dict"} =>
                       /\ ~update_schema_from_row(schema, row).changed
                       /\ update_schema_from_row(schema, row).schema = schema

\* the field has seen both shapes and then a list of plain scalars, which
\* changed nothing
C29_Witness ==
    /\ input = MixedRows
    /\ pc = "unchanged"
    /\ change = [v |-> ListOf(<<Plain, Plain>>)]
    /\ HasType(FieldV(schema), "array")
    /\ HasType(FieldV(schema), "object")
    /\ Len(FieldV(schema)) = 3

(***************************************************************************)
(* C30: update_schema_from_row returns true if and only if the call        *)
(* changed the schema: with false the schema after the call is the schema  *)
(* before it, with true it differs.                                        *)
(***************************************************************************)
C30_ChangedIffTreeDiffers ==
    \A row \in input :
       update_schema_from_row(schema, row).changed
          <=> update_schema_from_row(schema, row).schema # schema

\* the value is no sentinel and holds none, at any depth
RECURSIVE NoSentinel(_)
NoSentinel(value) ==
    CASE value.k = "list" -> \A i \in 1..Len(value.x) : NoSentinel(value.x[i])
      [] value.k = "dict" -> \A f \in DOMAIN value.x : NoSentinel(value.x[f])
      [] OTHER -> value.k \notin {"minkey", "maxkey"}

(***************************************************************************)
(* C31: MinKey and MaxKey never appear in a record that is written: no     *)
(* field of the record holds one, at the top level, inside an object or    *)
(* inside a list.                                                          *)
(***************************************************************************)
C31_NoSentinelInRecord ==
    \A i \in 1..Len(out) :
       out[i].type = "RECORD" =>
          \A f \in DOMAIN out[i].record : NoSentinel(out[i].record[f])

(***************************************************************************)
(* C32: an iteration in which the counter reaches or passes a multiple of  *)
(* UPDATE_BOOKMARK_PERIOD, by the record of an insert or a delete or by    *)
(* the records of a flush, flushes the buffer and writes a checkpoint      *)
(* before it ends.                                                         *)
(***************************************************************************)
C32_CheckpointEveryPeriod ==
    [][(Iteration /\ change' # None
            /\ rows_saved' \div UPDATE_BOOKMARK_PERIOD
                  > rows_saved \div UPDATE_BOOKMARK_PERIOD) =>
          /\ finds' = finds + 1
          /\ \E i \in 1..Len(Written) : IsState(Written[i])]_vars

\* the document a record was made from; a tombstone is made from the delete
\* event of its step
RowOf(m, ev) == IF IsTombstone(m) THEN DeletedDoc(ev) ELSE DocOf(RecordId(m))

\* the schema in effect before the i-th of the messages msgs is written and
\* before the schema message in front of it, if any: the one the last
\* schema message further back carries, sch if there is none (at are the
\* positions of the schema messages)
SchemaBefore(msgs, at, i, sch) ==
    LET back == {j \in at : j < i - 1}
    IN IF back = {} THEN sch
       ELSE msgs[CHOOSE j \in back : \A l \in back : l <= j].schema

(***************************************************************************)
(* C33: every record the engine writes, inline or from a flush, comes      *)
(* after the merge of its document into the schema: when the merge         *)
(* reports a change, the message written just before the record is a       *)
(* schema message carrying the merged schema; when it reports none, the    *)
(* message before the record is no schema message.  A schema message is    *)
(* written for no other reason.                                            *)
(***************************************************************************)
C33_SchemaBeforeRecord ==
    [][\E W \in {Written} :
         \E at \in {{j \in 1..Len(W) : W[j].type = "SCHEMA"}} :
           /\ \A j \in at : j < Len(W) /\ IsRecord(W[j + 1])
           /\ \A i \in 1..Len(W) :
                 IsRecord(W[i]) =>
                    \E m \in {update_schema_from_row(SchemaBefore(W, at, i, schema),
                                                     RowOf(W[i], change'))} :
                       IF m.changed
                       THEN i > 1 /\ W[i - 1] = SchemaMessage(m.schema)
                       ELSE (i - 1) \notin at
           /\ schema' = SchemaBefore(W, at, Len(W) + 2, schema)]_vars

\* an insert of a document of plain scalars wrote its record alone; the
\* flush after the loop wrote the schema message of a document with a
\* datetime and then its record
C33_Witness ==
    /\ pc = "returned" /\ Len(out) = 5
    /\ IsRecord(out[2]) /\ IsState(out[3])
    /\ out[4] = SchemaMessage(schema)
    /\ IsRecord(out[5]) /\ RecordId(out[5]) = 1

\* whether the state holds a bookmark for the stream id, and that bookmark
BookmarkOf(st, id) ==
    <<id \in DOMAIN st.bookmarks,
      IF id \in DOMAIN st.bookmarks THEN st.bookmarks[id] ELSE EmptyBookmark>>

(***************************************************************************)
(* C34: no step of the sync of a stream (the reset and the writes of       *)
(* clear_state_on_replication_change at its start, the checkpoints of its  *)
(* sync_collection, its end) modifies the bookmark of another stream: the  *)
(* other stream has a bookmark after the step iff it had one before, with  *)
(* the same fields and values.                                             *)
(***************************************************************************)
C34_OtherBookmarksUntouched ==
    [][\A id \in RunIds :
          (pc \in {"next", "syncing"} /\ pc' # "done"
              /\ id # stream'.tap_stream_id)
             => BookmarkOf(state', id) = BookmarkOf(state, id)]_vars

\* the sync of the first stream has reset its bookmark (the method changed)
\* and written a checkpoint, while the other stream keeps the bookmark of
\* the previous run
C34_Witness ==
    /\ pc = "syncing" /\ rows_saved = 3
    /\ stream.tap_stream_id = "s1" /\ stream.method = "FULL_TABLE"
    /\ get_bookmark(input.state, "s1", "last_replication_method") = "LOG_BASED"
    /\ get_bookmark(input.state, "s1", "token") = "t7"
    /\ get_bookmark(state, "s1", "token") = NoValue
    /\ BookmarkOf(state, "s2") = <<TRUE, PlainBookmark>>

(***************************************************************************)
(* C35: a LOG_BASED sync writes one version-activation message, as its     *)
(* first message and so before any record; its version is the version of   *)
(* the bookmark when the bookmark has one and else the one generated at    *)
(* the start of the sync; every record of the sync, written inline, as a   *)
(* tombstone or by a flush, carries that version.                          *)
(***************************************************************************)
C35_OneVersion ==
    [][/\ pc = "start" => version' = IF version = 0 THEN 1 ELSE version
       /\ out'[1] = ActivateVersionMessage(version')
       /\ \A i \in 2..Len(out') :
             /\ out'[i].type # "ACTIVATE_VERSION"
             /\ IsRecord(out'[i]) => out'[i].version = out'[1].version]_vars

\* a sync that started from a bookmarked version has written an inline
\* record, a tombstone and the record of a flush
C35_Witness ==
    /\ pc = "returned" /\ version = 5
    /\ out[1] = ActivateVersionMessage(5)
    /\ \E i, j, l \in 2..Len(out) :
          /\ i < j /\ j < l
          /\ IsRecord(out[i]) /\ ~IsTombstone(out[i])
          /\ IsTombstone(out[j])
          /\ IsState(out[l - 1]) /\ IsRecord(out[l]) /\ l = Len(out)

(***************************************************************************)
(* C36: the buffer never holds more than MAX_UPDATE_BUFFER_LENGTH          *)
(* identifiers, not even between the dispatch of an update and the flush   *)
(* of the same iteration; when an iteration ends it holds fewer; when      *)
(* sync_collection returns it is empty.                                    *)
(***************************************************************************)
C36_BufferBounded ==
    [][LET dispatched == IF Iteration /\ change'.op = "update"
                         THEN update_buffer \cup {change'.id}
                         ELSE update_buffer
       IN /\ Cardinality(dispatched) <= MAX_UPDATE_BUFFER_LENGTH
          /\ Cardinality(update_buffer') < MAX_UPDATE_BUFFER_LENGTH
          /\ pc' = "returned" => update_buffer' = {}]_vars

\* the update that filled the buffer has been read: the iteration flushed
\* the MAX_UPDATE_BUFFER_LENGTH documents and left the buffer empty
C36_Witness ==
    /\ pc = "loop" /\ change.op = "update"
    /\ input.upd = MAX_UPDATE_BUFFER_LENGTH - 1
    /\ pos = ScriptLen(input) + 1
    /\ update_buffer = {}
    /\ Len(RecordsOf(out)) = input.ins1 + MAX_UPDATE_BUFFER_LENGTH

\* the configured method is the recorded one, or none is recorded, and for
\* INCREMENTAL the same holds of the replication key
SameReplication ==
    /\ LastMethod \in {NoValue, input.stream.method}
    /\ input.stream.method = "INCREMENTAL" =>
          get_bookmark(input.state, "s1", "replication_key_name")
             \in {NoValue, input.stream.key}

(***************************************************************************)
(* C37: when neither the method nor, for INCREMENTAL, the key differs from *)
(* what the bookmark records, clear_state_on_replication_change does not   *)
(* reset the bookmark: the resume token, the version and the key value are *)
(* what they were, and nothing but last_replication_method and             *)
(* replication_key_name is written.                                        *)
(***************************************************************************)
C37_SameReplicationKeepsBookmark ==
    (pc = "cleared" /\ SameReplication) =>
        /\ \A f \in {"token", "version", "replication_key_value"} :
              get_bookmark(state, "s1", f) = get_bookmark(input.state, "s1", f)
        /\ \A f \in DOMAIN state.bookmarks["s1"] :
              f \in {"last_replication_method", "replication_key_name"}
                 \/ get_bookmark(input.state, "s1", f) = state.bookmarks["s1"][f]

\* a LOG_BASED stream whose bookmark was written under LOG_BASED keeps its
\* token and its version
C37_Witness ==
    /\ pc = "cleared"
    /\ input.stream.method = "LOG_BASED" /\ LastMethod = "LOG_BASED"
    /\ get_bookmark(input.state, "s1", "token") = "t7"
    /\ get_bookmark(state, "s1", "token") = "t7"
    /\ get_bookmark(state, "s1", "version") = "v5"

\* the position of the last state message before position i of the output,
\* 0 if there is none
LastStateBefore(i) ==
    LET S == {j \in 1..(i - 1) : IsState(out[j])}
    IN IF S = {} THEN 0 ELSE CHOOSE j \in S : \A l \in S : l <= j

\* the marker of the state message at position i, empty for position 0
MarkerAt(i) == IF i = 0 THEN NoValue ELSE out[i].value.currently_syncing

(***************************************************************************)
(* C38: one stream is synced at a time.  The marker of every state message *)
(* written is empty or names the stream whose sync is in progress: it is   *)
(* the stream named by the state message before it, unless that one's      *)
(* marker is empty, and while a sync is in progress it is that stream.     *)
(* Every record is written after a state message whose marker names the    *)
(* record's stream, with no other state message in between.  When do_sync  *)
(* has completed, the last state message has an empty marker.              *)
(***************************************************************************)
C38_OneStreamAtATime ==
    /\ \A i \in 1..Len(out) :
          \E p \in {LastStateBefore(i)} :
             /\ (IsState(out[i]) /\ MarkerAt(i) # NoValue) =>
                   /\ MarkerAt(i) \in RunIds
                   /\ MarkerAt(p) \in {NoValue, MarkerAt(i)}
             /\ IsRecord(out[i]) => p > 0 /\ MarkerAt(p) = out[i].stream
    /\ \E p \in {LastStateBefore(Len(out) + 1)} :
          /\ MarkerAt(p) # NoValue =>
                pc \in {"syncing", "failed"} /\ MarkerAt(p) = stream.tap_stream_id
          /\ pc = "done" => MarkerAt(p) = NoValue

\* do_sync has completed after the sync of two streams, each with a record
\* between its start and end checkpoints
C38_Witness ==
    /\ pc = "done" /\ raised = NoValue
    /\ \E i, j \in 1..Len(out) :
          /\ IsRecord(out[i]) /\ IsRecord(out[j])
          /\ out[i].stream # out[j].stream
    /\ IsCheckpointOf(Last(out), NoValue)

\* the positions of the entries of a kind in an anyOf list: the date-time
\* entry is known by its format, the others by their type
OfKind(anyOf, kind) ==
    {i \in 1..Len(anyOf) :
        IF kind = "date-time" THEN anyOf[i].format = kind ELSE anyOf[i].type = kind}

\* the anyOf list, and every anyOf list below it, holds at most one
\* date-time entry, one number entry, one object entry and one array entry
RECURSIVE SingleSlot(_)
SingleSlot(anyOf) ==
    /\ \A kind \in {"date-time", "number", "object", "array"} :
          Cardinality(OfKind(anyOf, kind)) <= 1
    /\ \A i \in 1..Len(anyOf) :
          CASE anyOf[i].type = "array" -> SingleSlot(anyOf[i].items)
            [] anyOf[i].type = "object" ->
                 \A f \in DOMAIN anyOf[i].properties :
                    SingleSlot(anyOf[i].properties[f])
            [] OTHER -> TRUE

(***************************************************************************)
(* C39: single slot.  After any sequence of merges every anyOf list of the *)
(* schema, at every depth, holds besides the catch-all at most one         *)
(* date-time entry, at most one number entry, at most one object entry and *)
(* at most one array entry.                                                *)
(***************************************************************************)
C39_SingleSlot ==
    \A f \in DOMAIN schema.properties : SingleSlot(schema.properties[f])

\* the field has seen a date-time, a float, a list and an object, some of
\* them again: its list holds one entry of each kind and the catch-all
C39_Witness ==
    /\ input = MixedRows /\ pc = "unchanged"
    /\ Len(FieldV(schema)) = 5
    /\ {FieldV(schema)[i].type : i \in 1..5} = {"string", "number", "object", "array", ""}

====
